---- MODULE Spec2Model ----
(***************************************************************************)
(* Model of the schema compiler of schemaforge-ai                          *)
(* (app/services/structure_service.py): create_dynamic_model turns a JSON  *)
(* Schema text into a pydantic model class; the class validates a          *)
(* candidate value tree and model_dump() returns the resulting mapping.    *)
(***************************************************************************)
EXTENDS Integers, Sequences, FiniteSets, TLC

(* ------------------------------------------------------------------ *)
(* Python / JSON values, tagged by kind.                                *)
(* ------------------------------------------------------------------ *)
JNull == [k |-> "null"]
JStr(s) == [k |-> "str", v |-> s]
JInt(n) == [k |-> "int", v |-> n]
JFloat(n) == [k |-> "float", v |-> n]
JBool(b) == [k |-> "bool", v |-> b]
JArr(s) == [k |-> "arr", v |-> s]
\* a dict: the sequence of its <<key, value>> items in insertion order
JObj(items) == [k |-> "obj", v |-> items]
\* the Ellipsis object (...), pydantic's marker of a required field
Ellipsis == [k |-> "ellipsis"]

Range(s) == {s[i] : i \in DOMAIN s}
Keys(d) == [i \in DOMAIN d.v |-> d.v[i][1]]
Has(d, key) == \E i \in DOMAIN d.v : d.v[i][1] = key
\* dict.get(key, default)
Get(d, key, default) ==
    IF Has(d, key) THEN d.v[CHOOSE i \in DOMAIN d.v : d.v[i][1] = key][2] ELSE default
\* d[key] = value on the item sequence: a new key is appended, an old one keeps its place
Put(items, key, value) ==
    IF \E i \in DOMAIN items : items[i][1] = key
    THEN [i \in DOMAIN items |-> IF items[i][1] = key THEN <<key, value>> ELSE items[i]]
    ELSE Append(items, <<key, value>>)
\* Python truthiness of a JSON value
Truthy(x) ==
    CASE x.k = "null" -> FALSE
      [] x.k = "bool" -> x.v
      [] x.k = "int" -> x.v # 0
      [] x.k = "str" -> x.v # ""
      [] x.k = "text" -> x.v # <<"">>
      [] x.k \in {"arr", "obj"} -> Len(x.v) > 0
      [] OTHER -> TRUE

(* ------------------------------------------------------------------ *)
(* Schema texts are token sequences; json.loads parses them.            *)
(* ------------------------------------------------------------------ *)
Tok(t) == [t |-> t]
TStr(s) == [t |-> "str", s |-> s]
TInt(n) == [t |-> "int", n |-> n]
\* a bare word of free text: no JSON token
TWord(w) == [t |-> "word", w |-> w]

RECURSIVE Dumps(_), DumpsItems(_, _), DumpsElems(_, _)
\* json.dumps: the text of a JSON value
Dumps(x) ==
    CASE x.k = "null" -> <<Tok("null")>>
      [] x.k = "str" -> <<TStr(x.v)>>
      [] x.k = "int" -> <<TInt(x.v)>>
      [] x.k = "bool" -> <<Tok(IF x.v THEN "true" ELSE "false")>>
      [] x.k = "arr" -> <<Tok("[")>> \o DumpsElems(x.v, 1) \o <<Tok("]")>>
      [] x.k = "obj" -> <<Tok("{")>> \o DumpsItems(x.v, 1) \o <<Tok("}")>>
DumpsElems(s, i) ==
    IF i > Len(s) THEN <<>>
    ELSE Dumps(s[i]) \o (IF i < Len(s) THEN <<Tok(",")>> ELSE <<>>) \o DumpsElems(s, i + 1)
DumpsItems(s, i) ==
    IF i > Len(s) THEN <<>>
    ELSE <<TStr(s[i][1]), Tok(":")>> \o Dumps(s[i][2])
         \o (IF i < Len(s) THEN <<Tok(",")>> ELSE <<>>) \o DumpsItems(s, i + 1)

ParseFail == [ok |-> FALSE]
Parsed(x, next) == [ok |-> TRUE, val |-> x, next |-> next]
IsTok(toks, i, t) == i <= Len(toks) /\ toks[i].t = t

RECURSIVE ParseValue(_, _), ParseElems(_, _, _), ParseItems(_, _, _)
\* one JSON value starting at token i
ParseValue(toks, i) ==
    IF i > Len(toks) THEN ParseFail
    ELSE LET t == toks[i] IN
         CASE t.t = "str" -> Parsed(JStr(t.s), i + 1)
           [] t.t = "int" -> Parsed(JInt(t.n), i + 1)
           [] t.t = "true" -> Parsed(JBool(TRUE), i + 1)
           [] t.t = "false" -> Parsed(JBool(FALSE), i + 1)
           [] t.t = "null" -> Parsed(JNull, i + 1)
           [] t.t = "[" -> IF IsTok(toks, i + 1, "]") THEN Parsed(JArr(<<>>), i + 2)
                           ELSE ParseElems(toks, i + 1, <<>>)
           [] t.t = "{" -> IF IsTok(toks, i + 1, "}") THEN Parsed(JObj(<<>>), i + 2)
                           ELSE ParseItems(toks, i + 1, <<>>)
           [] OTHER -> ParseFail
ParseElems(toks, i, acc) ==
    LET r == ParseValue(toks, i) IN
    IF ~r.ok THEN ParseFail
    ELSE IF IsTok(toks, r.next, ",") THEN ParseElems(toks, r.next + 1, Append(acc, r.val))
    ELSE IF IsTok(toks, r.next, "]") THEN Parsed(JArr(Append(acc, r.val)), r.next + 1)
    ELSE ParseFail
\* the members of an object; a repeated key keeps its place and takes the last value
ParseItems(toks, i, acc) ==
    IF ~(IsTok(toks, i, "str") /\ IsTok(toks, i + 1, ":")) THEN ParseFail
    ELSE LET r == ParseValue(toks, i + 2) IN
         IF ~r.ok THEN ParseFail
         ELSE IF IsTok(toks, r.next, ",")
              THEN ParseItems(toks, r.next + 1, Put(acc, toks[i].s, r.val))
         ELSE IF IsTok(toks, r.next, "}")
              THEN Parsed(JObj(Put(acc, toks[i].s, r.val)), r.next + 1)
         ELSE ParseFail

Raise(exc) == [ok |-> FALSE, exc |-> exc]
Return(x) == [ok |-> TRUE, val |-> x]

\* json.loads(text): the value, or JSONDecodeError unless the whole text is one value
json_loads(text) ==
    LET r == ParseValue(text, 1) IN
    IF r.ok /\ r.next = Len(text) + 1 THEN Return(r.val) ELSE Raise("JSONDecodeError")

(* ------------------------------------------------------------------ *)
(* Compiled types: what create_model, Enum and the typing forms build.  *)
(* ------------------------------------------------------------------ *)
TAny == [k |-> "any"]
TPrim(name) == [k |-> "prim", name |-> name]
TList(item) == [k |-> "list", item |-> item]
TOptional(t) == [k |-> "optional", of |-> t]
\* members: the <<name, value>> items of the enum class, in definition order
TEnum(name, members) == [k |-> "enum", name |-> name, members |-> members]
\* fields: the <<field name, <<type, FieldInfo>>>> items of the model class
TModel(name, fields) == [k |-> "model", name |-> name, fields |-> fields]
\* Field(default, description=...)
Field(default, description) == [default |-> default, description |-> description]

\* type_mapping: dict[str, type]
type_mapping ==
    JObj(<< <<"string", TPrim("str")>>, <<"integer", TPrim("int")>>,
            <<"number", TPrim("float")>>, <<"boolean", TPrim("bool")>>,
            <<"array", TPrim("list")>>, <<"object", TPrim("dict")>> >>)

\* TypeLookup taking a missing type for "string", as line 93 does for a field
TypeLookupNoneIsString(mapping, key) ==
    IF key.k \in {"arr", "obj"} THEN Raise("TypeError")
    ELSE IF key.k = "str" THEN Return(Get(mapping, key.v, TAny))
    ELSE IF key.k = "null" THEN Return(Get(mapping, "string", TAny))
    ELSE Return(TAny)

\* type_mapping.get(key, Any): a list or dict key is unhashable
TypeLookup(mapping, key) ==
    IF key.k \in {"arr", "obj"} THEN Raise("TypeError")
    ELSE IF key.k = "str" THEN Return(Get(mapping, key.v, TAny))
    ELSE Return(TAny)

\* str.capitalize() on the field names of the model: first letter upper, the rest lower
Capitalize(name) ==
    CASE name = "name" -> "Name"
      [] name = "species" -> "Species"
      [] name = "customer" -> "Customer"
      [] name = "items" -> "Items"
      [] name = "level" -> "Level"
      [] name = "petName" -> "Petname"
      [] OTHER -> name

\* names the Enum class refuses for a member
InvalidMemberNames == {"", "mro"}

RECURSIVE EnumDict(_, _, _)
\* {v: v for v in enum_values} for str values: a repeated value is one key
EnumDict(values, i, acc) ==
    IF i > Len(values) THEN acc
    ELSE EnumDict(values, i + 1, Put(acc, values[i].v, values[i]))

\* Enum(enum_name, {v: v for v in enum_values}) for a list enum_values: a list or dict
\* value is unhashable, and the functional API takes a str key as the member name and
\* tries to unpack every other key as a (name, value) pair
MakeEnum(field_name, enum_values) ==
    IF \E i \in DOMAIN enum_values.v : enum_values.v[i].k # "str" THEN Raise("TypeError")
    ELSE LET d == EnumDict(enum_values.v, 1, <<>>) IN
         IF \E i \in DOMAIN d : d[i][1] \in InvalidMemberNames THEN Raise("ValueError")
         ELSE Return(TEnum(<<Capitalize(field_name), "Enum">>, d))

\* field_name in required_fields, for a list
InRequired(field_name, required_fields) ==
    \E i \in DOMAIN required_fields.v : required_fields.v[i] = JStr(field_name)

\* FinishField with the test of line 124 dropped: every field takes the optional default
FinishFieldAllOptional(field_name, field_props, required_fields, field_type) ==
    LET nullable == Get(field_props, "nullable", JBool(FALSE))
        description == Get(field_props, "title", JStr(""))
        ftype == IF Truthy(nullable) THEN TOptional(field_type) ELSE field_type
    IN  Return(<<ftype, Field(Get(field_props, "default", JNull), description)>>)

\* FinishField with line 125 assigning None: an optional field loses its declared default
FinishFieldDropsDefault(field_name, field_props, required_fields, field_type) ==
    LET default_value == Get(field_props, "default", Ellipsis)
        nullable == Get(field_props, "nullable", JBool(FALSE))
        description == Get(field_props, "title", JStr(""))
        ftype == IF Truthy(nullable) THEN TOptional(field_type) ELSE field_type
    IN  IF required_fields.k \notin {"arr"} THEN Raise("TypeError")
        ELSE IF ~InRequired(field_name, required_fields)
        THEN Return(<<ftype, Field(JNull, description)>>)
        ELSE Return(<<ftype, Field(default_value, description)>>)

\* FinishField without lines 121-122: the nullable flag is not looked at
FinishFieldNeverNullable(field_name, field_props, required_fields, field_type) ==
    LET default_value == Get(field_props, "default", Ellipsis)
        description == Get(field_props, "title", JStr(""))
    IN  IF required_fields.k \notin {"arr"} THEN Raise("TypeError")
        ELSE IF ~InRequired(field_name, required_fields)
        THEN Return(<<field_type, Field(Get(field_props, "default", JNull), description)>>)
        ELSE Return(<<field_type, Field(default_value, description)>>)

\* FinishField with a listed field required whatever its fragment declares: the
\* default of line 117 is not read
FinishFieldListedIsRequired(field_name, field_props, required_fields, field_type) ==
    LET nullable == Get(field_props, "nullable", JBool(FALSE))
        description == Get(field_props, "title", JStr(""))
        ftype == IF Truthy(nullable) THEN TOptional(field_type) ELSE field_type
    IN  IF required_fields.k \notin {"arr"} THEN Raise("TypeError")
        ELSE IF ~InRequired(field_name, required_fields)
        THEN Return(<<ftype, Field(Get(field_props, "default", JNull), description)>>)
        ELSE Return(<<ftype, Field(Ellipsis, description)>>)

\* lines 116-127: default, nullability and description of a field whose type is known
FinishField(field_name, field_props, required_fields, field_type) ==
    LET default_value == Get(field_props, "default", Ellipsis)
        nullable == Get(field_props, "nullable", JBool(FALSE))
        description == Get(field_props, "title", JStr(""))
        ftype == IF Truthy(nullable) THEN TOptional(field_type) ELSE field_type
    IN  IF required_fields.k \notin {"arr"} THEN Raise("TypeError")
        ELSE IF ~InRequired(field_name, required_fields)
        THEN Return(<<ftype, Field(Get(field_props, "default", JNull), description)>>)
        ELSE Return(<<ftype, Field(default_value, description)>>)

\* create_model called with the fallback name, whatever the title
create_modelUntitled(name, model_fields) == Return(TModel("DynamicModel", model_fields))

\* create_model(name, **model_fields)
create_model(name, model_fields) ==
    IF name.k # "str" THEN Raise("TypeError") ELSE Return(TModel(name.v, model_fields))

\* FieldBranch reading one more key: a fragment with a $ref goes to the table
FieldBranchFollowsRef(field_props) ==
    LET json_type == Get(field_props, "type", JStr("string"))
        enum_values == Get(field_props, "enum", JNull)
    IN  IF Has(field_props, "$ref") THEN "lookup"
        ELSE IF Truthy(enum_values) THEN "enum"
        ELSE IF json_type = JStr("object") /\ Has(field_props, "properties") THEN "object"
        ELSE IF json_type = JStr("array") /\ Has(field_props, "items") THEN "array"
        ELSE "lookup"

\* which branch of process_field a fragment takes (lines 93-114)
FieldBranch(field_props) ==
    LET json_type == Get(field_props, "type", JStr("string"))
        enum_values == Get(field_props, "enum", JNull)
    IN  IF Truthy(enum_values) THEN "enum"
        ELSE IF json_type = JStr("object") /\ Has(field_props, "properties") THEN "object"
        ELSE IF json_type = JStr("array") /\ Has(field_props, "items") THEN "array"
        ELSE "lookup"

RECURSIVE json_schema_to_base_model(_), process_field(_, _, _), ProcessFields(_, _, _, _)
\* process_field: the (type, Field) pair of one property
process_field(field_name, field_props, required_fields) ==
    IF field_props.k # "obj" THEN Raise("AttributeError")
    ELSE
    LET json_type == Get(field_props, "type", JStr("string"))
        branch == FieldBranch(field_props)
        item_props == Get(field_props, "items", JNull)
        item_type ==
            IF item_props.k # "obj" THEN Raise("AttributeError")
            ELSE IF Get(item_props, "type", JNull) = JStr("object")
                 THEN json_schema_to_base_model(item_props)
                 ELSE TypeLookup(type_mapping, Get(item_props, "type", JNull))
        field_type ==
            CASE branch = "enum" -> MakeEnum(field_name, Get(field_props, "enum", JNull))
              [] branch = "object" -> json_schema_to_base_model(field_props)
              [] branch = "array" ->
                    IF item_type.ok THEN Return(TList(item_type.val)) ELSE item_type
              [] OTHER -> TypeLookup(type_mapping, json_type)
    IN  IF ~field_type.ok THEN field_type
        ELSE FinishField(field_name, field_props, required_fields, field_type.val)

\* the loop of lines 130-131 from property i on
ProcessFields(properties, required_fields, i, model_fields) ==
    IF i > Len(properties) THEN Return(model_fields)
    ELSE LET f == process_field(properties[i][1], properties[i][2], required_fields) IN
         IF ~f.ok THEN f
         ELSE ProcessFields(properties, required_fields, i + 1,
                            Put(model_fields, properties[i][1], f.val))

\* json_schema_to_base_model(schema): the model class of an object fragment
json_schema_to_base_model(schema) ==
    IF schema.k # "obj" THEN Raise("AttributeError")
    ELSE LET properties == Get(schema, "properties", JObj(<<>>))
             required_fields == Get(schema, "required", JArr(<<>>))
         IN  IF properties.k # "obj" THEN Raise("AttributeError")
             ELSE LET fs == ProcessFields(properties.v, required_fields, 1, <<>>) IN
                  IF ~fs.ok THEN fs
                  ELSE create_model(Get(schema, "title", JStr("DynamicModel")), fs.val)

\* create_dynamic_model(schema_description, struct_model_name) run on its own, without
\* the log record of line 76
create_dynamic_model(schema_description, struct_model_name) ==
    LET doc == json_loads(schema_description) IN
    IF ~doc.ok THEN doc ELSE json_schema_to_base_model(doc.val)

(* ------------------------------------------------------------------ *)
(* Instantiation: the validation the compiled model class runs on a     *)
(* candidate (pydantic, lax mode), and model_dump() of the instance.    *)
(* ------------------------------------------------------------------ *)
\* an enum member and a model instance
EnumMember(cls, name, value) == [k |-> "member", cls |-> cls, name |-> name, v |-> value]
Instance(cls, items) == [k |-> "inst", cls |-> cls, v |-> items]

Err(loc, type) == [loc |-> loc, type |-> type]
Valid(x) == [errs |-> {}, val |-> x]
Invalid(errs) == [errs |-> errs, val |-> JNull]

\* the decimal strings among the string values of the model, and their numbers
NumericStrings == {"0", "1", "12"}
IntOfStr(s) == CASE s = "0" -> 0 [] s = "1" -> 1 [] s = "12" -> 12
TrueStrings == {"1", "on", "t", "true", "y", "yes"}
FalseStrings == {"0", "off", "f", "false", "n", "no"}

\* validation against str, int, float, bool, list and dict
ValidatePrim(name, x, loc) ==
    CASE name = "str" ->
            IF x.k = "str" THEN Valid(x) ELSE Invalid({Err(loc, "string_type")})
      [] name = "int" ->
            IF x.k = "int" THEN Valid(x)
            ELSE IF x.k = "float" THEN Valid(JInt(x.v))
            ELSE IF x.k = "bool" THEN Valid(JInt(IF x.v THEN 1 ELSE 0))
            ELSE IF x.k = "str" /\ x.v \in NumericStrings THEN Valid(JInt(IntOfStr(x.v)))
            ELSE Invalid({Err(loc, IF x.k = "str" THEN "int_parsing" ELSE "int_type")})
      [] name = "float" ->
            IF x.k = "float" THEN Valid(x)
            ELSE IF x.k = "int" THEN Valid(JFloat(x.v))
            ELSE IF x.k = "bool" THEN Valid(JFloat(IF x.v THEN 1 ELSE 0))
            ELSE IF x.k = "str" /\ x.v \in NumericStrings THEN Valid(JFloat(IntOfStr(x.v)))
            ELSE Invalid({Err(loc, IF x.k = "str" THEN "float_parsing" ELSE "float_type")})
      [] name = "bool" ->
            IF x.k = "bool" THEN Valid(x)
            ELSE IF x.k \in {"int", "float"} /\ x.v \in {0, 1} THEN Valid(JBool(x.v = 1))
            ELSE IF x.k = "str" /\ x.v \in TrueStrings THEN Valid(JBool(TRUE))
            ELSE IF x.k = "str" /\ x.v \in FalseStrings THEN Valid(JBool(FALSE))
            ELSE Invalid({Err(loc, IF x.k \in {"int", "float", "str"} THEN "bool_parsing"
                                                                         ELSE "bool_type")})
      [] name = "list" ->
            IF x.k = "arr" THEN Valid(x) ELSE Invalid({Err(loc, "list_type")})
      [] name = "dict" ->
            IF x.k = "obj" THEN Valid(x) ELSE Invalid({Err(loc, "dict_type")})

RECURSIVE Validate(_, _, _), ValidateFields(_, _, _, _, _), ValidateElems(_, _, _, _, _)
\* validation of value x against a compiled type; loc is the path of x in the candidate
Validate(t, x, loc) ==
    CASE t.k = "any" -> Valid(x)
      [] t.k = "prim" -> ValidatePrim(t.name, x, loc)
      [] t.k = "optional" -> IF x.k = "null" THEN Valid(x) ELSE Validate(t.of, x, loc)
      [] t.k = "enum" ->
            IF \E i \in DOMAIN t.members : t.members[i][2] = x
            THEN LET i == CHOOSE i \in DOMAIN t.members : t.members[i][2] = x
                 IN  Valid(EnumMember(t.name, t.members[i][1], t.members[i][2]))
            ELSE Invalid({Err(loc, "enum")})
      [] t.k = "list" ->
            IF x.k = "arr" THEN ValidateElems(t.item, x.v, loc, 1, Valid(<<>>))
            ELSE Invalid({Err(loc, "list_type")})
      [] t.k = "model" ->
            IF x.k = "obj" THEN ValidateFields(t, x, loc, 1, Valid(<<>>))
            ELSE Invalid({Err(loc, "model_type")})

RECURSIVE ValidateElemsFirst(_, _, _, _, _)
\* ValidateElems stopping at the first element with an error
ValidateElemsFirst(item, xs, loc, i, acc) ==
    IF i > Len(xs) \/ acc.errs # {}
    THEN (IF acc.errs = {} THEN Valid(JArr(acc.val)) ELSE Invalid(acc.errs))
    ELSE LET r == Validate(item, xs[i], Append(loc, i)) IN
         ValidateElemsFirst(item, xs, loc, i + 1,
                            [errs |-> acc.errs \cup r.errs, val |-> Append(acc.val, r.val)])

\* the elements of a list from element i on; every element is validated
ValidateElems(item, xs, loc, i, acc) ==
    IF i > Len(xs) THEN (IF acc.errs = {} THEN Valid(JArr(acc.val)) ELSE Invalid(acc.errs))
    ELSE LET r == Validate(item, xs[i], Append(loc, i)) IN
         ValidateElems(item, xs, loc, i + 1,
                       [errs |-> acc.errs \cup r.errs, val |-> Append(acc.val, r.val)])

RECURSIVE ValidateFieldsFirst(_, _, _, _, _)
\* ValidateFields stopping at the first field with an error
ValidateFieldsFirst(t, x, loc, i, acc) ==
    IF i > Len(t.fields) \/ acc.errs # {}
    THEN (IF acc.errs = {} THEN Valid(Instance(t.name, acc.val)) ELSE Invalid(acc.errs))
    ELSE LET name == t.fields[i][1]
             ftype == t.fields[i][2][1]
             info == t.fields[i][2][2]
             r == IF Has(x, name) THEN Validate(ftype, Get(x, name, JNull), Append(loc, name))
                  ELSE IF info.default = Ellipsis
                       THEN Invalid({Err(Append(loc, name), "missing")})
                       ELSE Valid(info.default)
         IN  ValidateFieldsFirst(t, x, loc, i + 1,
                                 [errs |-> acc.errs \cup r.errs,
                                  val |-> Append(acc.val, <<name, r.val>>)])

RECURSIVE ValidateFieldsForbidExtra(_, _, _, _, _)
\* ValidateFields refusing the keys of the candidate that are no fields
ValidateFieldsForbidExtra(t, x, loc, i, acc) ==
    IF i > Len(t.fields)
    THEN LET extra == {Err(Append(loc, x.v[j][1]), "extra_forbidden") :
                          j \in {n \in DOMAIN x.v : ~Has(JObj(t.fields), x.v[n][1])}}
         IN  IF acc.errs \cup extra = {} THEN Valid(Instance(t.name, acc.val))
             ELSE Invalid(acc.errs \cup extra)
    ELSE LET name == t.fields[i][1]
             ftype == t.fields[i][2][1]
             info == t.fields[i][2][2]
             r == IF Has(x, name) THEN Validate(ftype, Get(x, name, JNull), Append(loc, name))
                  ELSE IF info.default = Ellipsis
                       THEN Invalid({Err(Append(loc, name), "missing")})
                       ELSE Valid(info.default)
         IN  ValidateFieldsForbidExtra(t, x, loc, i + 1,
                                       [errs |-> acc.errs \cup r.errs,
                                        val |-> Append(acc.val, <<name, r.val>>)])

\* the fields of a model from field i on, in declaration order; every field is
\* validated and the errors of all of them are collected. A key of the candidate that
\* is no field is not looked at.
ValidateFields(t, x, loc, i, acc) ==
    IF i > Len(t.fields)
    THEN (IF acc.errs = {} THEN Valid(Instance(t.name, acc.val)) ELSE Invalid(acc.errs))
    ELSE LET name == t.fields[i][1]
             ftype == t.fields[i][2][1]
             info == t.fields[i][2][2]
             r == IF Has(x, name) THEN Validate(ftype, Get(x, name, JNull), Append(loc, name))
                  ELSE IF info.default = Ellipsis
                       THEN Invalid({Err(Append(loc, name), "missing")})
                       ELSE Valid(info.default)
         IN  ValidateFields(t, x, loc, i + 1,
                            [errs |-> acc.errs \cup r.errs,
                             val |-> Append(acc.val, <<name, r.val>>)])

\* dynamic_model.model_validate(candidate): the instance, or one ValidationError
\* carrying every error
model_validate(t, candidate) == Validate(t, candidate, <<>>)

RECURSIVE model_dump(_)
\* instance.model_dump(): models become dicts, lists are walked, every other value
\* (an enum member too) is kept as it is
model_dump(x) ==
    CASE x.k = "inst" -> JObj([i \in DOMAIN x.v |-> <<x.v[i][1], model_dump(x.v[i][2])>>])
      [] x.k = "arr" -> JArr([i \in DOMAIN x.v |-> model_dump(x.v[i])])
      [] OTHER -> x

(* ------------------------------------------------------------------ *)
(* The service as a state machine: workers run create_dynamic_model     *)
(* calls step by step, each activation of json_schema_to_base_model     *)
(* being a frame whose dicts live on the heap.                          *)
(* ------------------------------------------------------------------ *)
\* the calls that may start in one run of the model
MaxCalls == 3

\* two request handlers at work at the same time
Workers == {1, 2}
None == [k |-> "none"]

VARIABLES
    pc,         \* pc[p]: "idle", "entered" (line 76 done), "running" or "returned"
    text,       \* text[p]: the schema_description of p's call
    stack,      \* stack[p]: the frames of json_schema_to_base_model, innermost last
    heap,       \* heap[a]: the items of the dict at address a
    ret,        \* ret[p]: what p's call returned or raised, None before
    emitted,    \* number of records given to logfire
    done,       \* the <<text, result>> pairs of the calls that ended
    budget,     \* calls that may still start
    candidate,  \* the value tree the inference collaborator handed to the model class
    outcome,    \* the validation's errors and the dumped data, None before
    settings,   \* app.core.config.settings, made when the server process starts
    request,    \* the HTTP request in flight: client, path, headers, body; None before
    api_key,    \* what the get_api_key dependency returned or raised, None before
    agent,      \* what the external agent run gives for the request, None before
    served,     \* what the service function returned or raised, None before
    response,   \* the HTTP response: status_code and JSON body, None before
    client      \* what the client's function returned or raised, None before

vars == <<pc, text, stack, heap, ret, emitted, done, budget, candidate, outcome,
          settings, request, api_key, agent, served, response, client>>

(* ------------------------------------------------------------------ *)
(* app/core/config.py: the settings object, read from the environment   *)
(* of the server process.                                               *)
(* ------------------------------------------------------------------ *)
\* a string of a header or a key, kept as the pieces between its spaces: what
\* split(" ") gives. "" is <<"">>, "Bearer k" is <<"Bearer", "k">>
Text(words) == [k |-> "text", v |-> words]

\* str.lower() on the values REQUIRE_AUTH is given
Lower(s) == CASE s = "TRUE" -> "true" [] s = "True" -> "true" [] OTHER -> s

\* os.getenv(name, default)
getenv(env, name, default) == IF env[name] = None THEN default ELSE env[name]

\* Settings(): every field takes its class-level default, computed from os.getenv when
\* the class body runs; BaseSettings then reads the fields that are set in the
\* environment from there, a bool field by pydantic's parsing of the text
Settings(env) ==
    [API_V1_STR |-> JStr("/api/v1"),
     PROJECT_NAME |-> JStr("Structured API Service"),
     PROJECT_DESCRIPTION |-> JStr("Structured data processing API based on Pydantic-AI"),
     API_KEY |-> getenv(env, "API_KEY", Text(<<"">>)),
     API_KEY_NAME |-> "X-API-Key",
     REQUIRE_AUTH |-> IF env["REQUIRE_AUTH"] = None
                      THEN Lower(getenv(env, "REQUIRE_AUTH", JStr("true")).v) = "true"
                      ELSE Lower(env["REQUIRE_AUTH"].v) \in TrueStrings,
     BACKEND_CORS_ORIGINS |-> JArr(<<JStr("*")>>),
     DEFAULT_MODEL |-> JStr("openai:gpt-4o"),
     LOGFIRE_ENABLED |-> JBool(TRUE),
     LOGFIRE_TOKEN |-> JNull,
     OPENAI_API_KEY |-> JNull,
     OPENAI_BASE_URL |-> JNull,
     ANTHROPIC_API_KEY |-> JNull,
     GOOGLE_API_KEY |-> JNull,
     MISTRAL_API_KEY |-> JNull,
     COHERE_API_KEY |-> JNull,
     GROQ_API_KEY |-> JNull]

\* settings.<name>: an attribute the class does not define raises AttributeError
GetAttr(obj, name) ==
    IF name \in DOMAIN obj THEN Return(obj[name]) ELSE Raise("AttributeError")

\* a server started with neither API_KEY nor REQUIRE_AUTH in its environment
BareEnvironment == [API_KEY |-> None, REQUIRE_AUTH |-> None]

\* addresses the frames of any worker hold
LiveAddrs(stk) ==
    UNION {UNION {{stk[p][i].type_mapping, stk[p][i].model_fields} : i \in DOMAIN stk[p]}
             : p \in Workers}

\* NewAddr handing out the same dicts to every activation, as module-level tables would
NewAddrShared(stk, taken) == Cardinality(taken) + 1

\* the address of a new dict: one no frame holds, and not `taken`
NewAddr(stk, taken) ==
    CHOOSE a \in 1..(Cardinality(LiveAddrs(stk) \cup taken) + 1) :
        /\ a \notin LiveAddrs(stk) \cup taken
        /\ \A b \in 1..(a - 1) : b \in LiveAddrs(stk) \cup taken

\* heap with the dict at address a set to items (the heap grows to hold a)
Store(h, a, items) ==
    [b \in 1..(IF a > Len(h) THEN a ELSE Len(h)) |->
        IF b = a THEN items ELSE IF b <= Len(h) THEN h[b] ELSE <<>>]

\* Frame with the required list of the enclosing activation added to its own
FrameInheritsRequired(schema, stk) ==
    LET tm == NewAddr(stk, {})
        outer == IF stk[1] # <<>> THEN stk[1][Len(stk[1])].required_fields ELSE JArr(<<>>)
    IN
    [schema |-> schema,
     properties |-> Get(schema, "properties", JObj(<<>>)),
     required_fields |-> JArr(Get(schema, "required", JArr(<<>>)).v \o outer.v),
     type_mapping |-> tm,
     model_fields |-> NewAddr(stk, {tm}),
     i |-> 1,
     wait |-> "none"]

\* lines 78-89: a new activation for `schema`, with its own type_mapping and
\* model_fields dicts
Frame(schema, stk) ==
    LET tm == NewAddr(stk, {}) IN
    [schema |-> schema,
     properties |-> Get(schema, "properties", JObj(<<>>)),
     required_fields |-> Get(schema, "required", JArr(<<>>)),
     type_mapping |-> tm,
     model_fields |-> NewAddr(stk, {tm}),
     i |-> 1,
     wait |-> "none"]

\* entering json_schema_to_base_model(schema): schema.get and properties.items()
\* need dicts
CanEnter(schema) == schema.k = "obj" /\ Get(schema, "properties", JObj(<<>>)).k = "obj"

Push(p, schema) ==
    LET f == Frame(schema, stack) IN
    /\ stack' = [stack EXCEPT ![p] = Append(@, f)]
    /\ heap' = Store(Store(heap, f.type_mapping, type_mapping.v), f.model_fields, <<>>)

\* the call of p ends with result r; its frames and their dicts are dropped
End(p, r) ==
    /\ ret' = [ret EXCEPT ![p] = r]
    /\ pc' = [pc EXCEPT ![p] = "returned"]
    /\ done' = done \cup {<<text[p], r>>}
    /\ stack' = [stack EXCEPT ![p] = <<>>]

Init ==
    /\ pc = [p \in Workers |-> "idle"]
    /\ text = [p \in Workers |-> <<>>]
    /\ stack = [p \in Workers |-> <<>>]
    /\ heap = <<>>
    /\ ret = [p \in Workers |-> None]
    /\ emitted = 0
    /\ done = {}
    /\ budget = MaxCalls
    /\ candidate = None
    /\ outcome = None
    /\ settings = Settings(BareEnvironment)
    /\ request = None
    /\ api_key = None
    /\ agent = None
    /\ served = None
    /\ response = None
    /\ client = None

\* Call without line 76
CallSilent(p, t) ==
    /\ pc[p] \in {"idle", "returned"}
    /\ budget > 0
    /\ budget' = budget - 1
    /\ pc' = [pc EXCEPT ![p] = "entered"]
    /\ text' = [text EXCEPT ![p] = t]
    /\ ret' = [ret EXCEPT ![p] = None]
    /\ UNCHANGED <<emitted, stack, heap, done, candidate, outcome,
                 settings, request, api_key, agent, served, response, client>>

\* create_dynamic_model(t, ...) is called: line 76 gives logfire one record
Call(p, t) ==
    /\ pc[p] \in {"idle", "returned"}
    /\ budget > 0
    /\ budget' = budget - 1
    /\ pc' = [pc EXCEPT ![p] = "entered"]
    /\ text' = [text EXCEPT ![p] = t]
    /\ ret' = [ret EXCEPT ![p] = None]
    /\ emitted' = emitted + 1
    /\ UNCHANGED <<stack, heap, done, candidate, outcome,
                 settings, request, api_key, agent, served, response, client>>

\* line 134: json.loads, then the root activation
Load(p) ==
    /\ pc[p] = "entered"
    /\ LET doc == json_loads(text[p]) IN
       IF ~doc.ok THEN End(p, doc) /\ UNCHANGED heap
       ELSE IF ~CanEnter(doc.val) THEN End(p, Raise("AttributeError")) /\ UNCHANGED heap
       ELSE /\ Push(p, doc.val)
            /\ pc' = [pc EXCEPT ![p] = "running"]
            /\ UNCHANGED <<ret, done>>
    /\ UNCHANGED <<text, emitted, budget, candidate, outcome,
                 settings, request, api_key, agent, served, response, client>>

\* Drop clearing every dict, those of the other calls too
DropAll(h, frames) == [b \in DOMAIN h |-> <<>>]

\* the heap after the frames of p are dropped: their dicts are garbage
Drop(h, frames) ==
    [b \in DOMAIN h |->
        IF \E i \in DOMAIN frames : b \in {frames[i].type_mapping, frames[i].model_fields}
        THEN <<>> ELSE h[b]]

\* lines 130-131 and 91-127: the innermost activation processes its next property
ProcessField(p) ==
    /\ pc[p] = "running"
    /\ LET n == Len(stack[p])
           f == stack[p][n]
       IN
       /\ f.wait = "none"
       /\ f.i <= Len(f.properties.v)
       /\ LET field_name == f.properties.v[f.i][1]
              field_props == f.properties.v[f.i][2]
              mapping == JObj(heap[f.type_mapping])
              branch == IF field_props.k = "obj" THEN FieldBranch(field_props) ELSE "raise"
              item_props == Get(field_props, "items", JNull)
              nested ==
                  IF branch = "object" THEN field_props
                  ELSE IF branch = "array" /\ item_props.k = "obj"
                          /\ Get(item_props, "type", JNull) = JStr("object") THEN item_props
                  ELSE None
              item_type ==
                  IF item_props.k # "obj" THEN Raise("AttributeError")
                  ELSE TypeLookup(mapping, Get(item_props, "type", JNull))
              field_type ==
                  CASE branch = "raise" -> Raise("AttributeError")
                    [] branch = "enum" -> MakeEnum(field_name, Get(field_props, "enum", JNull))
                    [] branch = "array" ->
                          IF item_type.ok THEN Return(TList(item_type.val)) ELSE item_type
                    [] OTHER -> TypeLookup(mapping, Get(field_props, "type", JStr("string")))
              entry == IF field_type.ok
                       THEN FinishField(field_name, field_props, f.required_fields,
                                        field_type.val)
                       ELSE field_type
          IN
          IF nested # None
          THEN IF CanEnter(nested)
               THEN /\ LET g == Frame(nested, stack) IN
                       /\ stack' = [stack EXCEPT ![p] =
                              Append([@ EXCEPT ![n].wait = branch], g)]
                       /\ heap' = Store(Store(heap, g.type_mapping, type_mapping.v),
                                        g.model_fields, <<>>)
                    /\ UNCHANGED <<pc, ret, done>>
               ELSE End(p, Raise("AttributeError")) /\ heap' = Drop(heap, stack[p])
          ELSE IF entry.ok
               THEN /\ heap' = Store(heap, f.model_fields,
                                     Put(heap[f.model_fields], field_name, entry.val))
                    /\ stack' = [stack EXCEPT ![p][n].i = f.i + 1]
                    /\ UNCHANGED <<pc, ret, done>>
               ELSE End(p, entry) /\ heap' = Drop(heap, stack[p])
    /\ UNCHANGED <<text, emitted, budget, candidate, outcome,
                 settings, request, api_key, agent, served, response, client>>

\* line 133: the innermost activation has processed every property and returns
\* create_model(...); the activation that called it finishes its field (lines 102-127),
\* the root's result is the result of the call (line 134)
CreateModel(p) ==
    /\ pc[p] = "running"
    /\ LET n == Len(stack[p])
           f == stack[p][n]
           made == create_model(Get(f.schema, "title", JStr("DynamicModel")),
                                heap[f.model_fields])
       IN
       /\ f.wait = "none"
       /\ f.i > Len(f.properties.v)
       /\ IF ~made.ok THEN End(p, made) /\ heap' = Drop(heap, stack[p])
          ELSE IF n = 1 THEN End(p, made) /\ heap' = Drop(heap, stack[p])
          ELSE LET g == stack[p][n - 1]
                   field_name == g.properties.v[g.i][1]
                   field_props == g.properties.v[g.i][2]
                   field_type == IF g.wait = "array" THEN TList(made.val) ELSE made.val
                   entry == FinishField(field_name, field_props, g.required_fields,
                                        field_type)
               IN  IF entry.ok
                   THEN /\ heap' = Store(Drop(heap, <<f>>), g.model_fields,
                                         Put(heap[g.model_fields], field_name, entry.val))
                        /\ stack' = [stack EXCEPT ![p] =
                               [SubSeq(@, 1, n - 1) EXCEPT ![n - 1].i = g.i + 1,
                                                            ![n - 1].wait = "none"]]
                        /\ UNCHANGED <<pc, ret, done>>
                   ELSE End(p, entry) /\ heap' = Drop(heap, stack[p])
    /\ UNCHANGED <<text, emitted, budget, candidate, outcome,
                 settings, request, api_key, agent, served, response, client>>

(* ------------------------------------------------------------------ *)
(* Inputs: the schema documents and candidates the clients send.        *)
(* ------------------------------------------------------------------ *)
\* a dict literal from optional entries: an entry whose value is None is left out
Omit == None
Dict(items) == JObj(SelectSeq(items, LAMBDA it : it[2] # Omit))

Props(fields) == JObj(fields)
Required(names) == JArr([i \in DOMAIN names |-> JStr(names[i])])

\* the example of the specification
Pet ==
    Dict(<< <<"title", JStr("Pet")>>, <<"type", JStr("object")>>,
            <<"properties", Props(<<
                <<"name", Dict(<< <<"type", JStr("string")>> >>)>>,
                <<"species", Dict(<< <<"type", JStr("string")>>,
                                     <<"enum", JArr(<<JStr("dog"), JStr("cat")>>)>> >>)>> >>)>>,
            <<"required", Required(<<"name">>)>> >>)

\* a two-level object with an array of objects: order.customer.name, order.items[].name
Order ==
    Dict(<< <<"type", JStr("object")>>,
            <<"properties", Props(<<
                <<"customer", Dict(<< <<"type", JStr("object")>>,
                    <<"properties", Props(<< <<"name", Dict(<< <<"type", JStr("string")>> >>)>>,
                                             <<"level", Dict(<< <<"type", JStr("integer")>>,
                                                                <<"default", JInt(1)>> >>)>> >>)>>,
                    <<"required", Required(<<"name", "level">>)>> >>)>>,
                <<"items", Dict(<< <<"type", JStr("array")>>,
                    <<"items", Dict(<< <<"type", JStr("object")>>,
                        <<"properties", Props(<< <<"name", Dict(<< <<"type", JStr("string")>> >>)>> >>)>>,
                        <<"required", Required(<<"name">>)>> >>)>> >>)>>,
                <<"name", Dict(<< <<"type", JStr("boolean")>>, <<"nullable", JBool(TRUE)>> >>)>> >>)>>,
            <<"required", Required(<<"customer">>)>> >>)

\* the properties of Pet with other types, and an enum of numbers
Levels ==
    Dict(<< <<"properties", Props(<<
                <<"name", Dict(<< <<"type", JStr("integer")>> >>)>>,
                <<"level", Dict(<< <<"type", JStr("integer")>>,
                                   <<"enum", JArr(<<JInt(1), JInt(2)>>)>> >>)>> >>)>> >>)

\* nothing required: a plain field, a field with a default, a nullable nested object
Profile ==
    Dict(<< <<"title", JStr("Profile")>>,
            <<"properties", Props(<<
                <<"name", Dict(<< <<"type", JStr("string")>> >>)>>,
                <<"level", Dict(<< <<"type", JStr("integer")>>, <<"default", JInt(7)>> >>)>>,
                <<"customer", Dict(<< <<"type", JStr("object")>>, <<"nullable", JBool(TRUE)>>,
                    <<"properties", Props(<< <<"name", Dict(<< <<"type", JStr("string")>> >>)>> >>)>>
                    >>)>> >>)>> >>)

\* an object without properties
Untyped == Dict(<< <<"title", JStr("Pet")>>, <<"type", JStr("object")>> >>)

\* a description in plain words, and a document cut short
FreeText == <<TWord("a"), TWord("pet"), TWord("with"), TWord("a"), TWord("name")>>
CutShort == SubSeq(Dumps(Untyped), 1, Len(Dumps(Untyped)) - 1)

\* the schema_description values of the concurrent clients
Texts ==
    {Dumps(Pet), Dumps(Order), Dumps(Levels), Dumps(Untyped),
     Dumps(JArr(<<JStr("name")>>)), Dumps(JNull), FreeText, CutShort}

\* one-property fragments: every combination of type, enum, nullable and default
\* (a type may be a list of names in JSON Schema)
LeafTypes == {Omit, JStr("string"), JStr("integer"), JStr("number"), JStr("boolean"),
              JStr("object"), JStr("array"), JStr("date"),
              JArr(<<JStr("string"), JStr("null")>>)}
LeafEnums == {Omit, JArr(<<>>), JArr(<<JStr("dog"), JStr("cat")>>), JArr(<<JInt(1), JInt(2)>>),
              JArr(<<JStr("dog"), JStr("cat"), JStr("dog")>>)}
LeafNullable == {Omit, JBool(TRUE), JBool(FALSE)}
LeafDefaults == {Omit, JNull, JStr("dog")}
Leaves ==
    {Dict(<< <<"type", t>>, <<"enum", e>>, <<"nullable", n>>, <<"default", d>> >>) :
        t \in LeafTypes, e \in LeafEnums, n \in LeafNullable, d \in LeafDefaults}
LeafRequired == {Omit, Required(<<>>), Required(<<"species">>)}
LeafSchemas ==
    {Dict(<< <<"type", JStr("object")>>, <<"properties", Props(<< <<"species", l>> >>)>>,
             <<"required", r>> >>) : l \in Leaves, r \in LeafRequired}

\* one property that declares an enum, nested properties and items side by side
ShapeTypes == {JStr("object"), JStr("array")}
ShapeProps == {Omit, Props(<< <<"name", Dict(<< <<"type", JStr("string")>> >>)>> >>)}
ShapeItems ==
    {Omit, Dict(<<>>),
     Dict(<< <<"type", JStr("string")>> >>),
     Dict(<< <<"type", JStr("integer")>>, <<"nullable", JBool(TRUE)>> >>),
     Dict(<< <<"type", JStr("string")>>, <<"enum", JArr(<<JStr("dog"), JStr("cat")>>)>> >>),
     Dict(<< <<"type", JStr("string")>>, <<"default", JStr("dog")>> >>),
     Dict(<< <<"enum", JArr(<<JStr("dog"), JStr("cat")>>)>> >>),
     Dict(<< <<"type", JStr("date")>> >>),
     Dict(<< <<"type", JArr(<<JStr("string"), JStr("null")>>)>> >>),
     Dict(<< <<"type", JStr("array")>>, <<"items", Dict(<< <<"type", JStr("string")>> >>)>> >>),
     Dict(<< <<"type", JStr("object")>> >>),
     Dict(<< <<"type", JStr("object")>>,
             <<"properties", Props(<< <<"name", Dict(<< <<"type", JStr("string")>> >>)>>,
                                      <<"level", Dict(<< <<"type", JStr("integer")>> >>)>> >>)>>,
             <<"required", Required(<<"name">>)>> >>)}
Shapes ==
    {Dict(<< <<"type", t>>, <<"enum", e>>, <<"properties", ps>>, <<"items", it>> >>) :
        t \in ShapeTypes, e \in LeafEnums, ps \in ShapeProps, it \in ShapeItems}
ShapeSchemas ==
    {Dict(<< <<"type", JStr("object")>>, <<"properties", Props(<< <<"items", f>> >>)>> >>) :
        f \in Shapes}

\* names listed as required at one level and declared as properties at another
Crossed ==
    Dict(<< <<"type", JStr("object")>>,
            <<"properties", Props(<<
                <<"customer", Dict(<< <<"type", JStr("object")>>,
                    <<"properties", Props(<< <<"name", Dict(<< <<"type", JStr("string")>> >>)>>,
                                             <<"level", Dict(<< <<"type", JStr("integer")>> >>)>> >>)>>,
                    <<"required", Required(<<"level", "customer", "items">>)>> >>)>>,
                <<"items", Dict(<< <<"type", JStr("array")>>,
                    <<"items", Dict(<< <<"type", JStr("object")>>,
                        <<"properties", Props(<< <<"name", Dict(<< <<"type", JStr("string")>> >>)>>,
                                                 <<"level", Dict(<< <<"type", JStr("integer")>> >>)>> >>)>>,
                        <<"required", Required(<<"customer">>)>> >>)>> >>)>>,
                <<"name", Dict(<< <<"type", JStr("string")>> >>)>> >>)>>,
            <<"required", Required(<<"name">>)>> >>)

\* properties with a title, a description, both or neither
DocTitles == {Omit, JStr("Name")}
DocDescriptions == {Omit, JStr("the name of the pet")}
Documented ==
    {Dict(<< <<"title", JStr("Pet")>>, <<"type", JStr("object")>>,
             <<"properties", Props(<<
                 <<"name", Dict(<< <<"type", JStr("string")>>, <<"title", t>>,
                                   <<"description", d>> >>)>> >>)>> >>) :
        t \in DocTitles, d \in DocDescriptions}

\* keywords of JSON Schema outside the recognized set, with values of every kind, put
\* at the root, in a property, in the items of an array and in a property of the items
ExtraKeys == {"$ref", "anyOf", "additionalProperties", "pattern", "minimum"}
ExtraValues ==
    {JNull, JBool(FALSE), JInt(1), JStr("dog"),
     JArr(<<Dict(<< <<"type", JStr("integer")>> >>)>>),
     Dict(<< <<"type", JStr("integer")>>, <<"enum", JArr(<<JInt(1)>>)>> >>)}
ExtraPlaces == {"root", "property", "items", "nested"}
Extra(place, at, key, value) == <<key, IF place = at THEN value ELSE Omit>>
WithExtra(place, key, value) ==
    Dict(<< <<"type", JStr("object")>>,
            Extra(place, "root", key, value),
            <<"properties", Props(<<
                <<"items", Dict(<< <<"type", JStr("array")>>,
                    Extra(place, "property", key, value),
                    <<"items", Dict(<< <<"type", JStr("object")>>,
                        <<"properties", Props(<<
                            <<"name", Dict(<< <<"type", JStr("string")>>,
                                              Extra(place, "nested", key, value) >>)>> >>)>>,
                        Extra(place, "items", key, value),
                        <<"required", Required(<<"name">>)>> >>)>> >>)>> >>)>> >>)
Extras == {WithExtra(p, k, v) : p \in ExtraPlaces \cup {"nowhere"}, k \in ExtraKeys, v \in ExtraValues}

\* the schema documents of the single client
Schemas ==
    LeafSchemas \cup ShapeSchemas \cup Documented \cup Extras
        \cup {Pet, Order, Levels, Profile, Untyped, Crossed}
TextsV == {Dumps(x) : x \in Schemas}

\* the values a candidate may give a property
Pool ==
    {JStr("dog"), JStr("fish"), JStr("12"), JInt(1), JInt(7), JBool(TRUE), JNull,
     JObj(<<>>), JObj(<< <<"name", JStr("Rex")>> >>), JObj(<< <<"name", JInt(7)>> >>),
     JArr(<<>>), JArr(<<JObj(<< <<"name", JStr("Rex")>> >>), JObj(<<>>)>>),
     JArr(<<JStr("dog"), JInt(7), JStr("fish")>>),
     JArr(<<JStr("fish"), JArr(<<JInt(7)>>), JNull>>),
     JObj(<< <<"name", JStr("Rex")>>, <<"petName", JStr("dog")>> >>)}

\* the candidates for a schema document: each property is left out or given a value
\* and some candidates give a key more, one that no schema declares
Undeclared == <<"petName", JStr("dog")>>
Candidates(schema) ==
    LET properties == Get(schema, "properties", JObj(<<>>)).v
        declared == {Dict([i \in DOMAIN properties |-> <<properties[i][1], choice[i]>>]) :
                        choice \in [DOMAIN properties -> Pool \cup {Omit}]}
        few == {c \in declared :
                   \/ Len(c.v) = 0
                   \/ Len(c.v) = 1
                      /\ c.v[1][2] \in {JStr("dog"), JObj(<< <<"name", JStr("Rex")>> >>)}}
    IN  declared \cup {JObj(Append(c.v, Undeclared)) : c \in few}

\* lines 55-58: the agent's run validates the collaborator's candidate against the
\* compiled model class; result.data.model_dump() is the data returned
Instantiate(p) ==
    /\ pc[p] = "returned"
    /\ ret[p].ok
    /\ outcome = None
    /\ \E c \in Candidates(json_loads(text[p]).val) :
          /\ candidate' = c
          /\ LET r == model_validate(ret[p].val, c) IN
             outcome' = [errs |-> r.errs,
                         data |-> IF r.errs = {} THEN model_dump(r.val) ELSE None]
    /\ UNCHANGED <<pc, text, stack, heap, ret, emitted, done, budget,
                 settings, request, api_key, agent, served, response, client>>

\* concurrent compile calls
Next ==
    \E p \in Workers :
        \/ \E t \in Texts : Call(p, t)
        \/ Load(p)
        \/ ProcessField(p)
        \/ CreateModel(p)

Spec == Init /\ [][Next]_vars

\* one request: a compile call, then the instantiation of a candidate
InitV ==
    /\ pc = [p \in Workers |-> "idle"]
    /\ text = [p \in Workers |-> <<>>]
    /\ stack = [p \in Workers |-> <<>>]
    /\ heap = <<>>
    /\ ret = [p \in Workers |-> None]
    /\ emitted = 0
    /\ done = {}
    /\ budget = 1
    /\ candidate = None
    /\ outcome = None
    /\ settings = Settings(BareEnvironment)
    /\ request = None
    /\ api_key = None
    /\ agent = None
    /\ served = None
    /\ response = None
    /\ client = None

NextV ==
    \/ \E t \in TextsV : Call(1, t)
    \/ Load(1)
    \/ ProcessField(1)
    \/ CreateModel(1)
    \/ Instantiate(1)

SpecV == InitV /\ [][NextV]_vars

(* ------------------------------------------------------------------ *)
(* The HTTP service: the API key dependency (app/core/auth.py), the     *)
(* two endpoints (app/api/v1/endpoints) with their service functions,   *)
(* and the clients of src/examples.                                     *)
(* ------------------------------------------------------------------ *)
\* a or b
Or(a, b) == IF Truthy(a) THEN a ELSE b
\* str(e): the text of exception e
str(e) == [k |-> "message", of |-> e]
\* d[key]: KeyError without the key
Subscript(d, key) == IF Has(d, key) THEN Return(Get(d, key, JNull)) ELSE Raise("KeyError")

HTTPException(status_code, detail, headers) ==
    [status_code |-> status_code, detail |-> detail, headers |-> headers]
\* a raised HTTPException is answered with its status code and {"detail": detail}
ErrorResponse(e) ==
    [status_code |-> e.status_code, body |-> JObj(<< <<"detail", e.detail>> >>)]
\* a returned response model is answered with 200 and its fields
OkResponse(model) == [status_code |-> 200, body |-> model]

\* APIKeyHeader(name=settings.API_KEY_NAME, auto_error=False): the value of the header
\* of that name, None when the request has none
APIKeyHeader(name, headers) == Get(JObj(headers), name, JNull)

\* api_key_header.startswith("Bearer ")
StartsWithBearer(h) == Len(h.v) >= 2 /\ h.v[1] = "Bearer"

\* get_api_key(api_key_header)
get_api_key(stg, api_key_header) ==
    IF ~stg.REQUIRE_AUTH THEN Return(JBool(TRUE))
    ELSE IF ~Truthy(stg.API_KEY)
    THEN Raise(HTTPException(500,
            JStr("API key authentication is enabled but no API key is set on the server"),
            <<>>))
    ELSE LET key == IF Truthy(api_key_header) /\ StartsWithBearer(api_key_header)
                    THEN Text(<<api_key_header.v[2]>>)
                    ELSE api_key_header
         IN  IF key # stg.API_KEY
             THEN Raise(HTTPException(401, JStr("Invalid API key"),
                                      << <<"WWW-Authenticate", "Bearer">> >>))
             ELSE Return(key)

\* process_structured_data(request, model_name) from the end of the compile call of
\* lines 37-39 on: dynamic_model is what that call returned or raised; run is what
\* agent.run gives, the candidate of the external model or the exception of a failed
\* run; a candidate the model class refuses ends the run with an exception
process_structured_data(dynamic_model, model_name, stg, run) ==
    LET retries == GetAttr(stg, "RETRIES")
    IN  IF ~dynamic_model.ok THEN dynamic_model
        ELSE IF ~retries.ok THEN retries
        ELSE IF ~run.ok THEN run
        ELSE LET r == model_validate(dynamic_model.val, run.val) IN
             IF r.errs # {} THEN Raise("UnexpectedModelBehavior")
             ELSE Return(<<model_dump(r.val), model_name>>)

StructureResponse(success, data, model_used) ==
    JObj(<< <<"success", success>>, <<"data", data>>, <<"error", JNull>>,
            <<"model_used", model_used>> >>)

\* StructureResult answering a failure with the success envelope, error filled in
StructureResultEnvelope(r) ==
    IF r.ok THEN Return(StructureResponse(JBool(TRUE), r.val[1], r.val[2]))
    ELSE Return(JObj(<< <<"success", JBool(FALSE)>>, <<"data", JObj(<<>>)>>,
                        <<"error", str(r.exc)>>, <<"model_used", JStr("")>> >>))

\* structure_data, lines 36-47, with the service function returning or raising r
StructureResult(r) ==
    IF r.ok THEN Return(StructureResponse(JBool(TRUE), r.val[1], r.val[2]))
    ELSE Raise(HTTPException(500, str(r.exc), <<>>))

\* the handler of POST /structure, from the end of the compile call on
structure_data(body, dynamic_model, stg, run) ==
    LET model_name == Or(body.model_name, stg.DEFAULT_MODEL) IN
    StructureResult(process_structured_data(dynamic_model, model_name, stg, run))

\* model_generation_service.generate_model(request, llm_model_name)
service_generate_model(body, llm_model_name, run) ==
    IF ~run.ok THEN run
    ELSE Return(<<run.val.model_code, run.val.fields, llm_model_name>>)

ModelGenerationResponse(success, model_name, model_code, fields, model_used) ==
    JObj(<< <<"success", success>>, <<"model_name", model_name>>,
            <<"model_code", model_code>>, <<"fields", fields>>,
            <<"model_used", model_used>>, <<"error", JNull>> >>)

\* the handler of POST /generate-model
generate_model(body, stg, run) ==
    LET llm_model_name == Or(body.llm_model_name, stg.DEFAULT_MODEL)
        r == service_generate_model(body, llm_model_name, run)
    IN  IF r.ok
        THEN Return(ModelGenerationResponse(JBool(TRUE), body.model_name,
                                            r.val[1], r.val[2], r.val[3]))
        ELSE Raise(HTTPException(500, str(r.exc), <<>>))

\* SchemaForgeClient.generate_model, from response.json() on
SchemaForgeClient_generate_model(result) ==
    IF ~Truthy(Get(result, "success", JBool(FALSE))) THEN Raise("ValueError")
    ELSE LET wanted == <<"model_name", "model_code", "json_schema", "fields", "model_used">>
             missing == {i \in DOMAIN wanted : ~Subscript(result, wanted[i]).ok}
         IN  IF missing # {} THEN Raise("KeyError")
             ELSE Return(JObj([i \in DOMAIN wanted |->
                                  <<wanted[i], Subscript(result, wanted[i]).val>>]))

\* generate_model of model_generation_example.py, from the response on
example_generate_model(result) == Return(result)

(* the requests *)
\* the environments a server is started in
Environments ==
    [API_KEY : {None, Text(<<"secret">>), Text(<<"se", "cret">>)},
     REQUIRE_AUTH : {None, JStr("false"), JStr("TRUE")}]

\* the values clients give the X-API-Key header
KeyTexts ==
    {Text(<<"secret">>), Text(<<"Bearer", "secret">>), Text(<<"Bearer", "secret", "extra">>),
     Text(<<"Bearer">>), Text(<<"wrong">>), Text(<<"Bearer", "wrong">>),
     Text(<<"se", "cret">>), Text(<<"Bearer", "se", "cret">>), Text(<<"">>)}
\* the keys the example script and the SDK client are configured with
ClientKeys == {Text(<<"secret">>), Text(<<"wrong">>)}

TextsS == {Dumps(Pet), Dumps(Order), Dumps(Levels), CutShort}
StructuredRequest ==
    [schema_description : TextsS,
     model_name : {JNull, JStr(""), JStr("anthropic:claude-3-opus-latest")},
     struct_model_name : {JStr("DynamicModel"), JStr("Invoice")}]
ModelGenerationRequest ==
    [model_name : {JStr("Product")},
     llm_model_name : {JNull, JStr(""), JStr("anthropic:claude-3-opus-latest")}]

\* an HTTP client of its own making: any header value, or no header at all
HttpRequests ==
    LET headers == {<<>>} \cup {<< <<"X-API-Key", h>> >> : h \in KeyTexts} IN
    [client : {"http"}, path : {"/api/v1/structure"}, headers : headers,
     body : StructuredRequest]
    \cup [client : {"http"}, path : {"/api/v1/generate-model"}, headers : headers,
          body : ModelGenerationRequest]
\* model_generation_example.py, lines 57-78: llm_model_name is sent when given
ExampleRequests ==
    [client : {"example"}, path : {"/api/v1/generate-model"},
     headers : {<< <<"Authorization", Text(<<"Bearer">> \o key.v)>> >> :
                   key \in ClientKeys \cup {Text(<<"">>)}},
     body : {b \in ModelGenerationRequest : b.llm_model_name # JStr("")}]
\* SchemaForgeClient.generate_model: the key is not empty, llm_model_name always sent
SdkRequests ==
    [client : {"sdk"}, path : {"/api/v1/generate-model"},
     headers : {<< <<"X-API-Key", key>> >> : key \in ClientKeys},
     body : {b \in ModelGenerationRequest : Truthy(b.llm_model_name)}]
Requests == HttpRequests \cup ExampleRequests \cup SdkRequests

\* what the external model gives: a candidate value tree, or a failed run
Answers ==
    {JObj(<<>>), JObj(<< <<"name", JStr("Rex")>> >>),
     JObj(<< <<"customer", JObj(<< <<"name", JStr("Rex")>> >>)>> >>)}
AgentRuns == {Raise("ModelHTTPError")} \cup {Return(c) : c \in Answers}
Generated ==
    [model_code |-> JStr("class Product(BaseModel): ..."), fields |-> JArr(<<>>),
     rationale |-> JStr("one field per key")]
GeneratorRuns == {Raise("ModelHTTPError"), Return(Generated)}

(* the actions *)
\* a client sends a request
Send(r) ==
    /\ request = None
    /\ request' = r
    /\ UNCHANGED <<pc, text, stack, heap, ret, emitted, done, budget, candidate, outcome,
                   settings, api_key, agent, served, response, client>>

\* the dependency of both endpoints: the handler runs only when get_api_key returned
Authenticate ==
    /\ request # None
    /\ api_key = None
    /\ LET r == get_api_key(settings, APIKeyHeader(settings.API_KEY_NAME, request.headers))
       IN  /\ api_key' = r
           /\ response' = IF r.ok THEN None ELSE ErrorResponse(r.exc)
           \* lines 33 and 45: a refusal is logged
           /\ emitted' = IF r.ok THEN emitted ELSE emitted + 1
    /\ UNCHANGED <<pc, text, stack, heap, ret, done, budget, candidate, outcome,
                   settings, request, agent, served, client>>

\* POST /structure: the handler calls the service function, which makes the compile
\* call of lines 37-39
StructureData ==
    /\ request # None /\ request.path = "/api/v1/structure"
    /\ api_key # None /\ api_key.ok
    /\ response = None
    /\ pc[1] = "idle"
    /\ Call(1, request.body.schema_description)

\* the compile call has ended: the rest of the service function, lines 41-62, and of
\* the handler, lines 37-47
StructureRespond ==
    /\ request # None /\ request.path = "/api/v1/structure"
    /\ pc[1] = "returned"
    /\ response = None
    /\ \E run \in AgentRuns :
          LET model_name == Or(request.body.model_name, settings.DEFAULT_MODEL)
              r == process_structured_data(ret[1], model_name, settings, run)
              reply == structure_data(request.body, ret[1], settings, run)
          IN  /\ agent' = run
              /\ served' = r
              /\ response' = IF reply.ok THEN OkResponse(reply.val)
                             ELSE ErrorResponse(reply.exc)
              \* line 37, or else lines 61 and 46
              /\ emitted' = emitted + (IF r.ok THEN 1 ELSE 2)
    /\ UNCHANGED <<pc, text, stack, heap, ret, done, budget, candidate, outcome,
                   settings, request, api_key, client>>

\* POST /generate-model: the handler and the service function
GenerateModel ==
    /\ request # None /\ request.path = "/api/v1/generate-model"
    /\ api_key # None /\ api_key.ok
    /\ response = None
    /\ \E run \in GeneratorRuns :
          LET llm_model_name == Or(request.body.llm_model_name, settings.DEFAULT_MODEL)
              r == service_generate_model(request.body, llm_model_name, run)
              reply == generate_model(request.body, settings, run)
          IN  /\ agent' = run
              /\ served' = r
              /\ response' = IF reply.ok THEN OkResponse(reply.val)
                             ELSE ErrorResponse(reply.exc)
              \* line 46, or else lines 84 and 50
              /\ emitted' = emitted + (IF r.ok THEN 1 ELSE 2)
    /\ UNCHANGED <<pc, text, stack, heap, ret, done, budget, candidate, outcome,
                   settings, request, api_key, client>>

\* the client's function goes on with response.json()
Receive ==
    /\ response # None
    /\ client = None
    /\ client' = CASE request.client = "sdk" -> SchemaForgeClient_generate_model(response.body)
                   [] request.client = "example" -> example_generate_model(response.body)
                   [] OTHER -> Return(response.body)
    /\ UNCHANGED <<pc, text, stack, heap, ret, emitted, done, budget, candidate, outcome,
                   settings, request, api_key, agent, served, response>>

\* one server, one request
InitS ==
    /\ pc = [p \in Workers |-> "idle"]
    /\ text = [p \in Workers |-> <<>>]
    /\ stack = [p \in Workers |-> <<>>]
    /\ heap = <<>>
    /\ ret = [p \in Workers |-> None]
    /\ emitted = 0
    /\ done = {}
    /\ budget = 1
    /\ candidate = None
    /\ outcome = None
    /\ settings \in {Settings(env) : env \in Environments}
    /\ request = None
    /\ api_key = None
    /\ agent = None
    /\ served = None
    /\ response = None
    /\ client = None

NextS ==
    \/ \E r \in Requests : Send(r)
    \/ Authenticate
    \/ StructureData
    \/ Load(1)
    \/ ProcessField(1)
    \/ CreateModel(1)
    \/ StructureRespond
    \/ GenerateModel
    \/ Receive

SpecS == InitS /\ [][NextS]_vars

(* ------------------------------------------------------------------ *)
(* The claims.                                                          *)
(* ------------------------------------------------------------------ *)
\* the schema document and the compiled type of the single client's request
SchemaV == json_loads(text[1]).val
TypeV == ret[1].val
Instantiated == outcome # None
PropertiesOf(schema) == Get(schema, "properties", JObj(<<>>)).v
Listed(name, schema) ==
    LET required == Get(schema, "required", JArr(<<>>)).v IN
    \E i \in DOMAIN required : required[i] = JStr(name)
NonEmptyEnum(frag) == Has(frag, "enum") /\ Len(Get(frag, "enum", JArr(<<>>)).v) > 0

\* a type with no required field whose one documentation string is the raw text
RawText(t) == [k |-> "text", toks |-> t]
IsFallback(type, t) ==
    /\ type.k = "model"
    /\ Len(type.fields) = 1
    /\ type.fields[1][2][2].default # Ellipsis
    /\ type.fields[1][2][2].description = RawText(t)

\* C1: a schema text that is not parseable as JSON does not make create_dynamic_model
\* raise; the call returns a fallback type whose single documentation field is the
\* raw text.
C1_MalformedTextGivesFallback ==
    \A p \in Workers :
        (pc[p] = "returned" /\ ~json_loads(text[p]).ok)
            => (ret[p].ok /\ IsFallback(ret[p].val, text[p]))

\* a document that parses but has no usable properties: no object, or no properties map
NoUsableProperties(doc) == doc.k # "obj" \/ ~Has(doc, "properties")

\* C2: a schema text that parses as JSON but has no usable properties (an object
\* without a properties map, an array, a scalar) does not fail the caller; the call
\* returns a degenerate record type with zero required fields and a single
\* documentation string equal to the raw text.
C2_NoPropertiesGivesFallback ==
    \A p \in Workers :
        (pc[p] = "returned" /\ json_loads(text[p]).ok
            /\ NoUsableProperties(json_loads(text[p]).val))
            => (ret[p].ok /\ IsFallback(ret[p].val, text[p]))

\* a fragment that compiles to a record type, and one that compiles to a list of records
IsRecord(frag) ==
    /\ frag.k = "obj" /\ ~NonEmptyEnum(frag)
    /\ Get(frag, "type", JNull) = JStr("object") /\ Has(frag, "properties")
IsRecordList(frag) ==
    /\ frag.k = "obj" /\ ~NonEmptyEnum(frag) /\ ~IsRecord(frag)
    /\ Get(frag, "type", JNull) = JStr("array") /\ Has(frag, "items")
    /\ Get(Get(frag, "items", JNull), "type", JNull) = JStr("object")

RECURSIVE OmittedRequired(_, _, _)
\* the paths of the fields that are listed in their parent's required array, declare
\* no default and are left out of the object the candidate gives for the parent
OmittedRequired(schema, x, loc) ==
    LET properties == PropertiesOf(schema) IN
    UNION {
        LET name == properties[i][1]
            frag == properties[i][2]
            v == Get(x, name, JNull)
        IN  IF ~Has(x, name)
            THEN (IF Listed(name, schema) /\ ~Has(frag, "default")
                  THEN {Append(loc, name)} ELSE {})
            ELSE IF IsRecord(frag) /\ v.k = "obj"
                 THEN OmittedRequired(frag, v, Append(loc, name))
            ELSE IF IsRecordList(frag) /\ v.k = "arr"
                 THEN UNION {IF v.v[j].k = "obj"
                             THEN OmittedRequired(Get(frag, "items", JNull), v.v[j],
                                                  Append(Append(loc, name), j))
                             ELSE {} : j \in DOMAIN v.v}
            ELSE {}
        : i \in DOMAIN properties}

\* C3: a field listed in its parent object's required array, declaring no default
\* and omitted by the candidate, makes the instantiation fail, and the failure names
\* exactly that field: the fields reported missing are the omitted required fields, no
\* others.
C3_OmittedRequiredIsNamed ==
    Instantiated =>
        {e.loc : e \in {d \in outcome.errs : d.type = "missing"}}
            = OmittedRequired(SchemaV, candidate, <<>>)

\* C3 witness: an instantiation failed on a required field left out of a nested object
C3_Witness ==
    /\ Instantiated
    /\ \E loc \in OmittedRequired(SchemaV, candidate, <<>>) : Len(loc) > 1
    /\ outcome.errs # {}

RECURSIVE NothingRequired(_)
\* the required list is empty or absent at every object level
NothingRequired(schema) ==
    /\ Get(schema, "required", JArr(<<>>)).v = <<>>
    /\ \A i \in DOMAIN PropertiesOf(schema) :
          LET frag == PropertiesOf(schema)[i][2] IN
          /\ IsRecord(frag) => NothingRequired(frag)
          /\ IsRecordList(frag) => NothingRequired(Get(frag, "items", JNull))

EmptyCandidateCase ==
    Instantiated /\ candidate = JObj(<<>>) /\ NothingRequired(SchemaV)

\* C4 as stated: with nothing required, the empty candidate succeeds and every field
\* resolves to its declared default, else to null if it is nullable, else to absent.
C4_OmittedOptionalAbsent ==
    EmptyCandidateCase =>
        /\ outcome.errs = {}
        /\ \A i \in DOMAIN PropertiesOf(SchemaV) :
              LET name == PropertiesOf(SchemaV)[i][1]
                  frag == PropertiesOf(SchemaV)[i][2]
              IN  IF Has(frag, "default")
                  THEN Has(outcome.data, name)
                       /\ Get(outcome.data, name, Omit) = Get(frag, "default", Omit)
                  ELSE IF Truthy(Get(frag, "nullable", JBool(FALSE)))
                  THEN Has(outcome.data, name) /\ Get(outcome.data, name, Omit) = JNull
                  ELSE ~Has(outcome.data, name)

\* C4 amended: with nothing required, the empty candidate succeeds and every field
\* resolves to its declared default if it has one, else to null, nullable or not.
C4_OmittedOptionalNull ==
    EmptyCandidateCase =>
        /\ outcome.errs = {}
        /\ Keys(outcome.data) = Keys(JObj(PropertiesOf(SchemaV)))
        /\ \A i \in DOMAIN PropertiesOf(SchemaV) :
              LET name == PropertiesOf(SchemaV)[i][1]
                  frag == PropertiesOf(SchemaV)[i][2]
              IN  Get(outcome.data, name, Omit) = Get(frag, "default", JNull)

\* C4 witness: an empty candidate was instantiated for a schema with a field that has
\* a default, a nullable field without one and a field that is neither
C4_Witness ==
    /\ EmptyCandidateCase
    /\ outcome.errs = {}
    /\ \E i \in DOMAIN PropertiesOf(SchemaV) : Has(PropertiesOf(SchemaV)[i][2], "default")
    /\ \E i \in DOMAIN PropertiesOf(SchemaV) :
          LET frag == PropertiesOf(SchemaV)[i][2] IN
          ~Has(frag, "default") /\ Has(frag, "nullable")
    /\ \E i \in DOMAIN PropertiesOf(SchemaV) :
          LET frag == PropertiesOf(SchemaV)[i][2] IN
          ~Has(frag, "default") /\ ~Has(frag, "nullable")

\* C5: for a field compiled from a fragment with a non-empty enum list, a candidate
\* value outside the list fails for that field, and a value inside it succeeds and is
\* returned unchanged, the same literal, in the data returned to the caller. (An
\* explicit null for a nullable field is not counted as a value outside the list.)
C5_EnumValueEchoed ==
    Instantiated =>
        \A i \in DOMAIN PropertiesOf(SchemaV) :
            LET name == PropertiesOf(SchemaV)[i][1]
                frag == PropertiesOf(SchemaV)[i][2]
                v == Get(candidate, name, JNull)
                nullable == Truthy(Get(frag, "nullable", JBool(FALSE)))
            IN  (NonEmptyEnum(frag) /\ Has(candidate, name) /\ ~(nullable /\ v = JNull)) =>
                    IF v \in Range(Get(frag, "enum", JNull).v)
                    THEN /\ \A e \in outcome.errs : e.loc[1] # name
                         /\ outcome.errs = {} => Get(outcome.data, name, Omit) = v
                    ELSE \E e \in outcome.errs : e.loc = <<name>>

\* the type and FieldInfo of a field of a compiled model class
FieldOf(type, name) == Get(JObj(type.fields), name, Omit)

\* the fields of the root with a problem: required (listed, no default) and left out,
\* or given a value that the field's type rejects
ProblemFields ==
    {name \in Range(Keys(JObj(PropertiesOf(SchemaV)))) :
        IF Has(candidate, name)
        THEN Validate(FieldOf(TypeV, name)[1], Get(candidate, name, JNull), <<name>>).errs # {}
        ELSE Listed(name, SchemaV) /\ ~Has(Get(JObj(PropertiesOf(SchemaV)), name, Omit), "default")}

\* C6: instantiation reports all field problems of a candidate in one failure: the
\* set of reported fields is the set of all fields that are missing-required or
\* invalid.
C6_AllProblemsReported ==
    Instantiated => {e.loc[1] : e \in outcome.errs} = ProblemFields

\* C6 witness: Pet instantiated with {species: fish} names both name and species
C6_Witness ==
    /\ Instantiated
    /\ SchemaV = Pet
    /\ candidate = JObj(<< <<"species", JStr("fish")>> >>)
    /\ outcome.errs = {Err(<<"name">>, "missing"), Err(<<"species">>, "enum")}

\* the keywords of the schema language and the values of type
RecognizedKeys == {"type", "properties", "required", "items", "enum", "nullable",
                   "default", "title", "description"}
KnownTypes == {"string", "integer", "number", "boolean", "object", "array"}

RECURSIVE ValidFragment(_)
\* a valid schema fragment that uses only the recognized keywords
ValidFragment(frag) ==
    /\ frag.k = "obj"
    /\ Range(Keys(frag)) \subseteq RecognizedKeys
    /\ Has(frag, "type") =>
          LET t == Get(frag, "type", JNull) IN t.k = "str" /\ t.v \in KnownTypes
    /\ Has(frag, "enum") =>
          LET e == Get(frag, "enum", JNull) IN e.k = "arr" /\ Len(e.v) > 0
    /\ Has(frag, "nullable") => Get(frag, "nullable", JNull).k = "bool"
    /\ Has(frag, "required") =>
          LET r == Get(frag, "required", JNull) IN
          r.k = "arr" /\ \A i \in DOMAIN r.v : r.v[i].k = "str"
    /\ Has(frag, "items") => ValidFragment(Get(frag, "items", JNull))
    /\ Has(frag, "properties") =>
          LET ps == Get(frag, "properties", JNull) IN
          ps.k = "obj" /\ \A i \in DOMAIN ps.v : ValidFragment(ps.v[i][2])

\* a value of the JSON type named t
HasJsonType(x, t) ==
    CASE t = "string" -> x.k = "str"
      [] t = "integer" -> x.k = "int"
      [] t = "number" -> x.k \in {"int", "float"}
      [] t = "boolean" -> x.k = "bool"
      [] t = "object" -> x.k = "obj"
      [] t = "array" -> x.k = "arr"

RECURSIVE Matches(_, _)
\* the candidate value x matches the fragment exactly: it has the declared type (string
\* when none is declared), is one of the enum values, gives every required property
\* and no undeclared one, and its properties and elements match in turn
Matches(frag, x) ==
    \/ x = JNull /\ Truthy(Get(frag, "nullable", JBool(FALSE)))
    \/ /\ HasJsonType(x, Get(frag, "type", JStr("string")).v)
       /\ Has(frag, "enum") => x \in Range(Get(frag, "enum", JNull).v)
       /\ (x.k = "arr" /\ Has(frag, "items")) =>
             \A j \in DOMAIN x.v : Matches(Get(frag, "items", JNull), x.v[j])
       /\ (x.k = "obj" /\ Has(frag, "properties")) =>
             LET ps == Get(frag, "properties", JNull) IN
             /\ Range(Keys(x)) \subseteq Range(Keys(ps))
             /\ \A i \in DOMAIN ps.v :
                   /\ Listed(ps.v[i][1], frag) => Has(x, ps.v[i][1])
                   /\ Has(x, ps.v[i][1])
                         => Matches(ps.v[i][2], Get(x, ps.v[i][1], JNull))

RECURSIVE SameShape(_, _)
\* the value tree x has the fields of the record fragment in the order of its
\* properties, and so have its nested records and the records of its arrays
SameShape(frag, x) ==
    /\ x.k = "obj"
    /\ Keys(x) = Keys(JObj(PropertiesOf(frag)))
    /\ \A i \in DOMAIN PropertiesOf(frag) :
          LET child == PropertiesOf(frag)[i][2]
              v == x.v[i][2]
          IN  /\ (IsRecord(child) /\ v # JNull) => SameShape(child, v)
              /\ (IsRecordList(child) /\ v # JNull) =>
                    /\ v.k = "arr"
                    /\ \A j \in DOMAIN v.v : SameShape(Get(child, "items", JNull), v.v[j])

\* C7: every valid schema document that uses only the recognized keywords compiles,
\* and instantiating it with a candidate that matches it exactly succeeds and returns
\* a value tree whose fields are the schema's properties, in their order, at every
\* level.
C7_ValidSchemaRoundTrips ==
    /\ (pc[1] = "returned" /\ json_loads(text[1]).ok /\ ValidFragment(SchemaV)) => ret[1].ok
    /\ (Instantiated /\ ValidFragment(SchemaV) /\ Matches(SchemaV, candidate))
          => (outcome.errs = {} /\ SameShape(SchemaV, outcome.data))

\* the second half of C7 alone: what holds of the schemas that do compile
C7_CompiledSchemaRoundTrips ==
    (Instantiated /\ ValidFragment(SchemaV) /\ Matches(SchemaV, candidate))
        => (outcome.errs = {} /\ SameShape(SchemaV, outcome.data))

\* C8: compiling the same schema text twice yields two structurally equal compiled
\* types, whatever other schemas were compiled before or in between.
C8_SameTextSameType ==
    \A a \in done : \A b \in done : a[1] = b[1] => a[2] = b[2]

\* C8 witness: both workers compiled the same nested schema, and a call for another
\* schema has ended as well
C8_Witness ==
    /\ pc[1] = "returned" /\ pc[2] = "returned"
    /\ text[1] = text[2]
    /\ ret[1].ok /\ ret[2].ok
    /\ \E i \in DOMAIN ret[1].val.fields : ret[1].val.fields[i][2][1].k = "model"
    /\ \E d \in done : d[1] # text[1] /\ d[2].ok

\* the frames of all workers, and the addresses each holds
FrameIds == UNION {{<<p, i>> : i \in DOMAIN stack[p]} : p \in Workers}
AddrsOf(id) == {stack[id[1]][id[2]].type_mapping, stack[id[1]][id[2]].model_fields}

\* C9: every dict a compile call writes is allocated for that call: no two
\* activations hold the same dict, and whatever the interleaving of the calls, the
\* result of each equals the result of running that call alone.
C9_CallsDoNotInterfere ==
    /\ \A id \in FrameIds : Cardinality(AddrsOf(id)) = 2
    /\ \A id \in FrameIds : \A other \in FrameIds \ {id} : AddrsOf(id) \cap AddrsOf(other) = {}
    /\ \A p \in Workers :
          pc[p] = "returned" => ret[p] = create_dynamic_model(text[p], "DynamicModel")

\* C9 witness: two calls for different schemas are under way at once, each with
\* fields already in its table, one of them inside a nested object
C9_Witness ==
    /\ pc[1] = "running" /\ pc[2] = "running"
    /\ text[1] # text[2]
    /\ Len(stack[1]) = 2
    /\ heap[stack[1][1].model_fields] # <<>>
    /\ heap[stack[2][1].model_fields] # <<>>

Private(q) == <<pc[q], text[q], stack[q], ret[q]>>
DictsOf(q) ==
    [a \in UNION {{stack[q][i].type_mapping, stack[q][i].model_fields} : i \in DOMAIN stack[q]}
        |-> heap[a]]

Returned == pc[1] = "returned"
Compiled == pc[1] = "returned" /\ ret[1].ok

\* a compiled field type without the Optional around it
BaseType(t) == IF t.k = "optional" THEN t.of ELSE t
\* the rule a compiled field type comes from
KindOf(t) ==
    CASE BaseType(t).k = "enum" -> "enum"
      [] BaseType(t).k = "model" -> "object"
      [] BaseType(t).k = "list" -> "array"
      [] OTHER -> "table"
\* the rule the stated precedence picks for a fragment
ExpectedKind(frag) ==
    IF NonEmptyEnum(frag) THEN "enum"
    ELSE IF Get(frag, "type", JNull) = JStr("object") /\ Has(frag, "properties") THEN "object"
    ELSE IF Get(frag, "type", JNull) = JStr("array") /\ Has(frag, "items") THEN "array"
    ELSE "table"

\* C11: the field-kind rules are applied in the stated precedence: a fragment with a
\* non-empty enum list compiles to an enum field, even when it also declares type
\* object with properties or type array with items; only when enum is absent or empty
\* is the object rule tried, then the array rule, then the primitive table.
C11_EnumTakesPrecedence ==
    Returned =>
        \A i \in DOMAIN PropertiesOf(SchemaV) :
            LET name == PropertiesOf(SchemaV)[i][1]
                frag == PropertiesOf(SchemaV)[i][2]
            IN  IF NonEmptyEnum(frag)
                THEN ret[1].ok /\ KindOf(FieldOf(TypeV, name)[1]) = "enum"
                ELSE ret[1].ok => KindOf(FieldOf(TypeV, name)[1]) = ExpectedKind(frag)

\* the precedence among the fields of the schemas that do compile
C11_PrecedenceOfCompiled ==
    Compiled =>
        \A i \in DOMAIN PropertiesOf(SchemaV) :
            LET name == PropertiesOf(SchemaV)[i][1]
                frag == PropertiesOf(SchemaV)[i][2]
            IN  KindOf(FieldOf(TypeV, name)[1]) = ExpectedKind(frag)

\* an enum of strings won over nested properties and over items
C11_EnumOverObject ==
    /\ Compiled
    /\ \E i \in DOMAIN PropertiesOf(SchemaV) :
          LET frag == PropertiesOf(SchemaV)[i][2] IN
          /\ NonEmptyEnum(frag) /\ Has(frag, "properties")
          /\ Get(frag, "type", JNull) = JStr("object")
          /\ KindOf(FieldOf(TypeV, PropertiesOf(SchemaV)[i][1])[1]) = "enum"

RECURSIVE RequiredByOwnParent(_, _)
\* in the model class compiled from `schema`, a field is required exactly when the
\* required array of `schema` itself lists it and its fragment declares no default;
\* the same holds in the classes of the nested objects and of the items of arrays
RequiredByOwnParent(schema, type) ==
    /\ Keys(JObj(type.fields)) = Keys(JObj(PropertiesOf(schema)))
    /\ \A i \in DOMAIN PropertiesOf(schema) :
          LET name == PropertiesOf(schema)[i][1]
              frag == PropertiesOf(schema)[i][2]
              info == type.fields[i][2][2]
              base == BaseType(type.fields[i][2][1])
          IN  /\ (info.default = Ellipsis) <=> (Listed(name, schema) /\ ~Has(frag, "default"))
              /\ IsRecord(frag) => RequiredByOwnParent(frag, base)
              /\ IsRecordList(frag) => RequiredByOwnParent(Get(frag, "items", JNull), base.item)

\* C12: whether a field is required depends only on the required array of the object
\* fragment that directly contains it: a name listed by an ancestor or a sibling
\* object never makes a same-named property of a nested object, or of an array's item
\* object, required, and a nested object's required array never affects the fields of
\* its parent.
C12_RequiredByOwnParent == Compiled => RequiredByOwnParent(SchemaV, TypeV)

\* C12 witness: the compiled schema lists, at each level, names that are properties of
\* another level
C12_Witness ==
    /\ Compiled
    /\ SchemaV = Crossed
    /\ Listed("name", SchemaV)
    /\ ~Listed("name", Get(JObj(PropertiesOf(SchemaV)), "customer", Omit))
    /\ Listed("customer", Get(JObj(PropertiesOf(SchemaV)), "customer", Omit))
    /\ ~Listed("customer", SchemaV)

\* the errors an instantiation reported at or below the root field `name`
ErrorsAt(name) == {e \in outcome.errs : e.loc[1] = name}
\* a fragment without one of its keys
Without(frag, key) == JObj(SelectSeq(frag.v, LAMBDA it : it[1] # key))
\* the nullable flag of a fragment is true
IsNullable(frag) == Get(frag, "nullable", JBool(FALSE)) = JBool(TRUE)
\* the fragment falls to the primitive table with a type the table does not have
IsAnyKind(frag) ==
    /\ ExpectedKind(frag) = "table"
    /\ Get(frag, "type", JStr("string")) \notin {JStr(t) : t \in KnownTypes}
\* the type the property `name` of the root would have without its nullable flag
TwinType(name, frag) ==
    process_field(name, Without(frag, "nullable"),
                  Get(SchemaV, "required", JArr(<<>>))).val[1]

\* C13: nullability is independent of kind and of requiredness: a field whose
\* fragment has nullable: true accepts an explicit null and still accepts or rejects
\* every other value as its base kind does (a union, not a replacement); a required
\* nullable field without a default must still be supplied; a field whose nullable is
\* false or absent and whose kind is not any rejects an explicit null.
C13_NullableIsUnion ==
    Instantiated =>
        \A i \in DOMAIN PropertiesOf(SchemaV) :
            LET name == PropertiesOf(SchemaV)[i][1]
                frag == PropertiesOf(SchemaV)[i][2]
                v == Get(candidate, name, Omit)
                twin == Validate(TwinType(name, frag), v, <<name>>)
            IN  /\ (IsNullable(frag) /\ v = JNull) => ErrorsAt(name) = {}
                /\ (IsNullable(frag) /\ v \notin {JNull, Omit}) =>
                      /\ ErrorsAt(name) = twin.errs
                      /\ outcome.errs = {} =>
                            Get(outcome.data, name, Omit) = model_dump(twin.val)
                /\ (IsNullable(frag) /\ v = Omit /\ Listed(name, SchemaV)
                        /\ ~Has(frag, "default")) =>
                      ErrorsAt(name) = {Err(<<name>>, "missing")}
                /\ (~IsNullable(frag) /\ ~IsAnyKind(frag) /\ v = JNull) =>
                      \E e \in ErrorsAt(name) : e.loc = <<name>>

\* C13 witness: one candidate gave null to a nullable field, which took it, and to a
\* field that is not nullable, which refused it
C13_Witness ==
    /\ Instantiated
    /\ \E i \in DOMAIN PropertiesOf(SchemaV) :
          LET name == PropertiesOf(SchemaV)[i][1] IN
          /\ IsNullable(PropertiesOf(SchemaV)[i][2])
          /\ Get(candidate, name, Omit) = JNull
          /\ ErrorsAt(name) = {}
    /\ \E i \in DOMAIN PropertiesOf(SchemaV) :
          LET name == PropertiesOf(SchemaV)[i][1] IN
          /\ ~IsNullable(PropertiesOf(SchemaV)[i][2])
          /\ Get(candidate, name, Omit) = JNull
          /\ ErrorsAt(name) # {}

\* a required nullable field without default was left out and reported missing
C13_RequiredNullableOmitted ==
    /\ Instantiated
    /\ \E i \in DOMAIN PropertiesOf(SchemaV) :
          LET name == PropertiesOf(SchemaV)[i][1]
              frag == PropertiesOf(SchemaV)[i][2]
          IN  /\ IsNullable(frag) /\ Listed(name, SchemaV) /\ ~Has(frag, "default")
              /\ ~Has(candidate, name)
              /\ ErrorsAt(name) = {Err(<<name>>, "missing")}

\* the properties of the root other than the i-th compile on their own
OthersCompile(i) ==
    \A j \in DOMAIN PropertiesOf(SchemaV) \ {i} :
        process_field(PropertiesOf(SchemaV)[j][1], PropertiesOf(SchemaV)[j][2],
                      Get(SchemaV, "required", JArr(<<>>))).ok

\* the primitive table as stated: a missing type counts as string, a type outside the
\* table as any
TableKind(frag) ==
    LET t == Get(frag, "type", JStr("string")) IN
    CASE t = JStr("string") -> TPrim("str")
      [] t = JStr("integer") -> TPrim("int")
      [] t = JStr("number") -> TPrim("float")
      [] t = JStr("boolean") -> TPrim("bool")
      [] t = JStr("array") -> TPrim("list")
      [] t = JStr("object") -> TPrim("dict")
      [] OTHER -> TAny

\* C14: for a fragment that is no enum, no object with properties and no array with
\* items, the field kind is the primitive-table lookup of type: string->string,
\* integer->integer, number->number, boolean->boolean, array->array of any,
\* object->open object; an absent type defaults to string, and a type value outside
\* the table maps to any, which accepts every value.
C14_PrimitiveTable ==
    /\ Returned =>
          \A i \in DOMAIN PropertiesOf(SchemaV) :
              LET name == PropertiesOf(SchemaV)[i][1]
                  frag == PropertiesOf(SchemaV)[i][2]
              IN  (ExpectedKind(frag) = "table" /\ OthersCompile(i)) =>
                      /\ ret[1].ok
                      /\ BaseType(FieldOf(TypeV, name)[1]) = TableKind(frag)
    /\ Instantiated =>
          \A i \in DOMAIN PropertiesOf(SchemaV) :
              LET name == PropertiesOf(SchemaV)[i][1]
                  frag == PropertiesOf(SchemaV)[i][2]
              IN  (ExpectedKind(frag) = "table" /\ TableKind(frag) = TAny
                      /\ Has(candidate, name)) => ErrorsAt(name) = {}

\* C14 for the type values a dict can look up: every type that is not a list or an
\* object
C14_ScalarTypeLookup ==
    /\ Returned =>
          \A i \in DOMAIN PropertiesOf(SchemaV) :
              LET name == PropertiesOf(SchemaV)[i][1]
                  frag == PropertiesOf(SchemaV)[i][2]
              IN  (ExpectedKind(frag) = "table" /\ OthersCompile(i)
                      /\ Get(frag, "type", JStr("string")).k \notin {"arr", "obj"}) =>
                      /\ ret[1].ok
                      /\ BaseType(FieldOf(TypeV, name)[1]) = TableKind(frag)
    /\ Instantiated =>
          \A i \in DOMAIN PropertiesOf(SchemaV) :
              LET name == PropertiesOf(SchemaV)[i][1]
                  frag == PropertiesOf(SchemaV)[i][2]
              IN  (ExpectedKind(frag) = "table" /\ TableKind(frag) = TAny
                      /\ Has(candidate, name)) => ErrorsAt(name) = {}

\* a field of kind any was given a value
C14_AnyGiven ==
    /\ Instantiated
    /\ \E i \in DOMAIN PropertiesOf(SchemaV) :
          /\ ExpectedKind(PropertiesOf(SchemaV)[i][2]) = "table"
          /\ TableKind(PropertiesOf(SchemaV)[i][2]) = TAny
          /\ Get(candidate, PropertiesOf(SchemaV)[i][1], Omit).k \in {"str", "obj"}

\* what the element type of an array comes from: the record compiled from items when
\* items.type is object; else the lookup of items.type, which is what an ordinary
\* field that declares just this type gets from the table, and any when items has no
\* type to look up
ElementType(items) ==
    IF Get(items, "type", JNull) = JStr("object") THEN json_schema_to_base_model(items)
    ELSE IF ~Has(items, "type") THEN Return(TAny)
    ELSE LET plain == process_field("name", Dict(<< <<"type", Get(items, "type", JNull)>> >>),
                                    JArr(<<>>))
         IN  IF plain.ok THEN Return(plain.val[1]) ELSE plain

\* the fragment takes the array rule and its items are a fragment
HasItems(frag) == ExpectedKind(frag) = "array" /\ Get(frag, "items", JNull).k = "obj"

\* C15: for a fragment with type array and an items sub-fragment: if items.type is
\* object the element type is the record type obtained by compiling items as an
\* object fragment, with its own properties and its own required list; otherwise the
\* element kind is the lookup of items.type in the primitive table of the ordinary
\* fields (with the same outcome, a failed lookup included); and every element of a
\* candidate array is validated against the element type.
C15_ItemsElementType ==
    /\ Returned =>
          \A i \in DOMAIN PropertiesOf(SchemaV) :
              LET name == PropertiesOf(SchemaV)[i][1]
                  frag == PropertiesOf(SchemaV)[i][2]
                  items == Get(frag, "items", JNull)
                  elem == ElementType(items)
              IN  (HasItems(frag) /\ OthersCompile(i)) =>
                      IF elem.ok
                      THEN /\ ret[1].ok
                           /\ BaseType(FieldOf(TypeV, name)[1]) = TList(elem.val)
                           /\ Get(items, "type", JNull) = JStr("object") =>
                                 RequiredByOwnParent(items, elem.val)
                      ELSE ret[1] = elem
    /\ Instantiated =>
          \A i \in DOMAIN PropertiesOf(SchemaV) :
              LET name == PropertiesOf(SchemaV)[i][1]
                  frag == PropertiesOf(SchemaV)[i][2]
                  items == Get(frag, "items", JNull)
                  v == Get(candidate, name, Omit)
              IN  (HasItems(frag) /\ v.k = "arr") =>
                      ErrorsAt(name) =
                          UNION {Validate(ElementType(items).val, v.v[j], <<name, j>>).errs :
                                    j \in DOMAIN v.v}

\* C15 witness: an array of three elements was validated against items of type string
\* and its second element alone refused
C15_Witness ==
    /\ Instantiated
    /\ \E i \in DOMAIN PropertiesOf(SchemaV) :
          LET name == PropertiesOf(SchemaV)[i][1]
              v == Get(candidate, name, Omit)
          IN  /\ HasItems(PropertiesOf(SchemaV)[i][2])
              /\ v.k = "arr" /\ Len(v.v) = 3
              /\ {e.loc : e \in ErrorsAt(name)} = {<<name, 2>>}

\* an array of records was validated against the record type of its items: the element
\* without the required name is reported, with the path of the field
C15_RecordElementRefused ==
    /\ Instantiated
    /\ \E i \in DOMAIN PropertiesOf(SchemaV) :
          LET name == PropertiesOf(SchemaV)[i][1] IN
          /\ HasItems(PropertiesOf(SchemaV)[i][2])
          /\ ErrorsAt(name) = {Err(<<name, 2, "name">>, "missing")}

RECURSIVE Distinct(_)
\* the values of a list in the order of their first occurrence
Distinct(s) ==
    IF s = <<>> THEN <<>>
    ELSE LET front == Distinct(SubSeq(s, 1, Len(s) - 1))
             last == s[Len(s)]
         IN  IF last \in Range(front) THEN front ELSE Append(front, last)

\* a string, a number or a boolean
IsLiteral(x) == x.k \in {"str", "int", "float", "bool"}
\* the permitted values of a compiled enum, in definition order
ValuesOf(enum) == [i \in DOMAIN enum.members |-> enum.members[i][2]]

\* C16: for every fragment with a non-empty enum list of JSON literals (strings,
\* numbers or booleans, possibly with repeated entries), compilation succeeds and the
\* compiled enum's permitted values are exactly the listed literals in the listed
\* order.
C16_EnumOfLiteralsCompiles ==
    Returned =>
        \A i \in DOMAIN PropertiesOf(SchemaV) :
            LET name == PropertiesOf(SchemaV)[i][1]
                frag == PropertiesOf(SchemaV)[i][2]
                listed == Get(frag, "enum", JArr(<<>>)).v
            IN  (NonEmptyEnum(frag) /\ (\A j \in DOMAIN listed : IsLiteral(listed[j]))
                    /\ OthersCompile(i)) =>
                    /\ ret[1].ok
                    /\ BaseType(FieldOf(TypeV, name)[1]).k = "enum"
                    /\ ValuesOf(BaseType(FieldOf(TypeV, name)[1])) = Distinct(listed)

\* C16 for the lists of strings alone
C16_EnumOfStringsCompiles ==
    Returned =>
        \A i \in DOMAIN PropertiesOf(SchemaV) :
            LET name == PropertiesOf(SchemaV)[i][1]
                frag == PropertiesOf(SchemaV)[i][2]
                listed == Get(frag, "enum", JArr(<<>>)).v
            IN  (NonEmptyEnum(frag) /\ (\A j \in DOMAIN listed : listed[j].k = "str")
                    /\ OthersCompile(i)) =>
                    /\ ret[1].ok
                    /\ BaseType(FieldOf(TypeV, name)[1]).k = "enum"
                    /\ ValuesOf(BaseType(FieldOf(TypeV, name)[1])) = Distinct(listed)

\* an enum list of strings with a repeated entry was compiled
C16_RepeatedEntryCompiled ==
    /\ Compiled
    /\ \E i \in DOMAIN PropertiesOf(SchemaV) :
          LET listed == Get(PropertiesOf(SchemaV)[i][2], "enum", JArr(<<>>)).v IN
          /\ NonEmptyEnum(PropertiesOf(SchemaV)[i][2])
          /\ Len(Distinct(listed)) < Len(listed)

Untitled(i) ==
    LET frag == PropertiesOf(SchemaV)[i][2] IN
    \/ IsRecord(frag) /\ ~Has(frag, "title")
    \/ IsRecordList(frag) /\ ~Has(Get(frag, "items", JNull), "title")
NestedName(i) ==
    LET base == BaseType(FieldOf(TypeV, PropertiesOf(SchemaV)[i][1])[1]) IN
    IF base.k = "list" THEN base.item.name ELSE base.name

\* C18: a nested object fragment without a title compiles to a record type whose name
\* is derived from the name of the field that owns it, so two untitled nested objects
\* under different field names get different names, and so do an untitled nested
\* object and the untitled root.
C18_NestedNamedByField ==
    Compiled =>
        \A i \in DOMAIN PropertiesOf(SchemaV) :
            Untitled(i) =>
                /\ ~Has(SchemaV, "title") => NestedName(i) # TypeV.name
                /\ \A j \in DOMAIN PropertiesOf(SchemaV) \ {i} :
                      Untitled(j) => NestedName(i) # NestedName(j)

\* what the code does instead: every record type of a fragment without title, nested
\* or not, is named "DynamicModel"
C18_UntitledNamedDynamicModel ==
    Compiled =>
        \A i \in DOMAIN PropertiesOf(SchemaV) : Untitled(i) => NestedName(i) = "DynamicModel"

\* C19: for every property fragment, the compiled field carries the fragment's
\* description verbatim: the field's documentation text equals the fragment's
\* description when one is declared, and is not replaced by or dropped in favour of
\* another key.
C19_DescriptionCarried ==
    Compiled =>
        \A i \in DOMAIN PropertiesOf(SchemaV) :
            LET name == PropertiesOf(SchemaV)[i][1]
                frag == PropertiesOf(SchemaV)[i][2]
            IN  Has(frag, "description") =>
                    FieldOf(TypeV, name)[2].description = Get(frag, "description", Omit)

\* what the code does instead: the documentation text of a field is the fragment's
\* title, or empty without one
C19_TitleAsDescription ==
    Compiled =>
        \A i \in DOMAIN PropertiesOf(SchemaV) :
            LET name == PropertiesOf(SchemaV)[i][1]
                frag == PropertiesOf(SchemaV)[i][2]
            IN  FieldOf(TypeV, name)[2].description = Get(frag, "title", JStr(""))

RECURSIVE Strip(_)
\* the fragment with every key outside the recognized set removed, in the fragment
\* itself, in the fragments of its properties and in its items
Strip(frag) ==
    IF frag.k # "obj" THEN frag
    ELSE LET kept == SelectSeq(frag.v, LAMBDA it : it[1] \in RecognizedKeys) IN
         JObj([i \in DOMAIN kept |->
                  IF kept[i][1] = "properties" /\ kept[i][2].k = "obj"
                  THEN <<"properties",
                         JObj([j \in DOMAIN kept[i][2].v |->
                                  <<kept[i][2].v[j][1], Strip(kept[i][2].v[j][2])>>])>>
                  ELSE IF kept[i][1] = "items" THEN <<"items", Strip(kept[i][2])>>
                  ELSE kept[i]])

C20_KeyAtRoot == Compiled /\ Strip(SchemaV) # SchemaV /\ Has(SchemaV, "$ref")
C20_KeyInProperty ==
    /\ Compiled /\ Len(PropertiesOf(SchemaV)) = 1
    /\ Has(PropertiesOf(SchemaV)[1][2], "additionalProperties")
C20_KeyInItems ==
    /\ Compiled /\ Len(PropertiesOf(SchemaV)) = 1
    /\ Has(Get(PropertiesOf(SchemaV)[1][2], "items", JObj(<<>>)), "minimum")

\* the fragment compiles to one of the four scalar kinds of the table
ScalarKind(frag) ==
    /\ ExpectedKind(frag) = "table"
    /\ TableKind(frag) \in {TPrim("str"), TPrim("int"), TPrim("float"), TPrim("bool")}
\* a JSON value of the kind the scalar type stands for
OfKind(x, t) ==
    CASE t = TPrim("str") -> x.k = "str"
      [] t = TPrim("int") -> x.k = "int"
      [] t = TPrim("float") -> x.k \in {"int", "float"}
      [] t = TPrim("bool") -> x.k = "bool"

\* C21: primitive validation performs no silent cross-kind coercion: for a field
\* declared integer, number, boolean or string, a candidate value of a different kind
\* (the string "12" for an integer field, the integer 1 for a boolean or string field)
\* is rejected with a field error and never accepted after conversion.
C21_NoCrossKindCoercion ==
    Instantiated =>
        \A i \in DOMAIN PropertiesOf(SchemaV) :
            LET name == PropertiesOf(SchemaV)[i][1]
                frag == PropertiesOf(SchemaV)[i][2]
                v == Get(candidate, name, Omit)
            IN  (ScalarKind(frag) /\ v \notin {Omit, JNull} /\ ~OfKind(v, TableKind(frag))) =>
                    ErrorsAt(name) # {}

\* the part of C21 that holds: a string field takes nothing but a string
C21_StringFieldTakesStrings ==
    Instantiated =>
        \A i \in DOMAIN PropertiesOf(SchemaV) :
            LET name == PropertiesOf(SchemaV)[i][1]
                frag == PropertiesOf(SchemaV)[i][2]
                v == Get(candidate, name, Omit)
            IN  (ScalarKind(frag) /\ TableKind(frag) = TPrim("str")
                    /\ v \notin {Omit, JNull} /\ v.k # "str") => ErrorsAt(name) # {}

\* an integer field was given the string "12" and returned the integer 12
C21_StringTakenAsInteger ==
    /\ Instantiated /\ outcome.errs = {}
    /\ \E i \in DOMAIN PropertiesOf(SchemaV) :
          LET name == PropertiesOf(SchemaV)[i][1] IN
          /\ TableKind(PropertiesOf(SchemaV)[i][2]) = TPrim("int")
          /\ ScalarKind(PropertiesOf(SchemaV)[i][2])
          /\ Get(candidate, name, Omit) = JStr("12")
          /\ Get(outcome.data, name, Omit) = JInt(12)

RECURSIVE Prune(_, _)
\* the candidate without the keys its type does not declare, at every level
Prune(type, x) ==
    CASE type.k = "model" /\ x.k = "obj" ->
            JObj([i \in DOMAIN SelectSeq(x.v, LAMBDA item : FieldOf(type, item[1]) # Omit) |->
                    LET item == SelectSeq(x.v, LAMBDA it : FieldOf(type, it[1]) # Omit)[i]
                    IN  <<item[1], Prune(FieldOf(type, item[1])[1], item[2])>>])
      [] type.k = "list" /\ x.k = "arr" ->
            JArr([i \in DOMAIN x.v |-> Prune(type.item, x.v[i])])
      [] type.k = "optional" -> Prune(type.of, x)
      [] OTHER -> x

RECURSIVE DeclaredKeys(_, _)
\* wherever the data holds the dump of a record type, its keys are the type's fields
DeclaredKeys(type, data) ==
    CASE type.k = "model" /\ data.k = "obj" ->
            /\ Keys(data) = Keys(JObj(type.fields))
            /\ \A i \in DOMAIN type.fields :
                  DeclaredKeys(type.fields[i][2][1], data.v[i][2])
      [] type.k = "list" /\ data.k = "arr" ->
            \A i \in DOMAIN data.v : DeclaredKeys(type.item, data.v[i])
      [] type.k = "optional" -> DeclaredKeys(type.of, data)
      [] OTHER -> TRUE

RECURSIVE HasUndeclared(_, _)
\* the candidate gives, at some level, a key that its type does not declare
HasUndeclared(type, x) ==
    CASE type.k = "model" /\ x.k = "obj" ->
            \E i \in DOMAIN x.v :
                \/ FieldOf(type, x.v[i][1]) = Omit
                \/ /\ FieldOf(type, x.v[i][1]) # Omit
                   /\ HasUndeclared(FieldOf(type, x.v[i][1])[1], x.v[i][2])
      [] type.k = "list" /\ x.k = "arr" ->
            \E i \in DOMAIN x.v : HasUndeclared(type.item, x.v[i])
      [] type.k = "optional" -> HasUndeclared(type.of, x)
      [] OTHER -> FALSE

\* C22: keys of the candidate that the compiled record type does not declare are
\* ignored at every nesting level: the outcome is the outcome of the candidate without
\* them, so they cause no failure, and in the resulting value tree the key set of every
\* record is exactly its declared field set.
C22_UndeclaredKeysIgnored ==
    Instantiated =>
        LET pruned == model_validate(TypeV, Prune(TypeV, candidate)) IN
        /\ outcome.errs = pruned.errs
        /\ outcome.errs = {} =>
              /\ outcome.data = model_dump(pruned.val)
              /\ DeclaredKeys(TypeV, outcome.data)

\* a candidate with an undeclared key at the root was accepted and the key is not in
\* the data
C22_Witness ==
    /\ Instantiated /\ outcome.errs = {}
    /\ Has(candidate, Undeclared[1])
    /\ FieldOf(TypeV, Undeclared[1]) = Omit
    /\ ~Has(outcome.data, Undeclared[1])
    /\ Len(outcome.data.v) > 0

\* an undeclared key below the root: given inside a nested record, gone from the data
C22_UndeclaredKeyNested ==
    /\ Instantiated /\ outcome.errs = {}
    /\ \E i \in DOMAIN candidate.v :
          /\ FieldOf(TypeV, candidate.v[i][1]) # Omit
          /\ HasUndeclared(FieldOf(TypeV, candidate.v[i][1])[1], candidate.v[i][2])

\* the request to /structure has been handled
Structured == request # None /\ request.path = "/api/v1/structure" /\ served # None
\* the model_name the handler gives the service function
ModelName == Or(request.body.model_name, settings.DEFAULT_MODEL)
\* the external agent run succeeds: it gives a candidate that the compiled class accepts
RunSucceeds == agent.ok /\ model_validate(TypeV, agent.val).errs = {}

\* C23: with the Settings of config.py, whenever the request's schema compiles and the
\* external agent run succeeds, process_structured_data returns the pair (dump of the
\* validated result, the model_name it was given); it raises only when the schema
\* compilation or the agent run fails.
C23_ServiceReturnsDump ==
    Structured =>
        IF Compiled /\ RunSucceeds
        THEN /\ served.ok
             /\ served.val = <<model_dump(model_validate(TypeV, agent.val).val), ModelName>>
        ELSE ~served.ok

\* the schema compiled, the external model had an acceptable candidate, and the
\* service function raised AttributeError
C23_RaisedOnRetries ==
    /\ Structured /\ Compiled /\ RunSucceeds
    /\ ~served.ok /\ served.exc = "AttributeError"
    /\ "RETRIES" \notin DOMAIN settings

\* what holds instead: the service function raises on every request
C23_ServiceAlwaysRaises == Structured => ~served.ok

\* a Settings object that has the RETRIES attribute line 42 reads
WithRetries(stg) ==
    [name \in DOMAIN stg \cup {"RETRIES"} |-> IF name = "RETRIES" THEN JInt(1) ELSE stg[name]]
\* the response is the success envelope
Succeeded(resp) == Get(resp.body, "success", JBool(FALSE)) = JBool(TRUE)

\* C24: at /structure every exception raised while the request is processed (schema
\* compilation, agent construction, agent run, validation) becomes an HTTP 500 response
\* carrying the exception text, and none escapes the handler; a success=True response is
\* produced only when process_structured_data returned normally, and its model_used is
\* the request's model_name or, when that is absent or empty, settings.DEFAULT_MODEL.
\* The handler is checked on the request as served and on every outcome the service
\* function can have for it, those of a Settings object with RETRIES included.
C24_FailuresBecome500 ==
    /\ Structured =>
          /\ response # None
          /\ ~served.ok =>
                /\ response.status_code = 500
                /\ response.body = JObj(<< <<"detail", str(served.exc)>> >>)
          /\ Succeeded(response) =>
                /\ served.ok
                /\ Get(response.body, "model_used", JNull) = ModelName
    /\ (request # None /\ request.path = "/api/v1/structure" /\ Returned) =>
          \A stg \in {settings, WithRetries(settings)}, run \in AgentRuns :
              LET r == process_structured_data(ret[1], ModelName, stg, run)
                  reply == structure_data(request.body, ret[1], stg, run)
              IN  IF r.ok
                  THEN /\ reply.ok
                       /\ reply.val = StructureResponse(JBool(TRUE), r.val[1], ModelName)
                  ELSE /\ ~reply.ok
                       /\ reply.exc = HTTPException(500, str(r.exc), <<>>)

\* a schema text that does not compile was answered with 500 and the exception's text,
\* for a request that named no model
C24_Witness ==
    /\ Structured /\ ~Compiled /\ ~served.ok
    /\ response.status_code = 500
    /\ response.body = JObj(<< <<"detail", str(ret[1].exc)>> >>)
    /\ ~Truthy(request.body.model_name)
    /\ client # None

\* the failure of line 42 was answered the same way
C24_AttributeErrorAnswered ==
    /\ Structured /\ Compiled
    /\ response = ErrorResponse(HTTPException(500, str("AttributeError"), <<>>))

\* the dependency has run on the request
Authenticated == request # None /\ api_key # None
\* the X-API-Key header of the request, JNull without one
KeyHeader == APIKeyHeader("X-API-Key", request.headers)
\* a header value without its leading "Bearer ", when it has one
WithoutBearer(h) == IF h # JNull /\ StartsWithBearer(h) THEN Text(Tail(h.v)) ELSE h
Refused(status_code) ==
    /\ ~api_key.ok /\ api_key.exc.status_code = status_code
    /\ response # None /\ response.status_code = status_code

\* C25: get_api_key admits every request when REQUIRE_AUTH is false; rejects every
\* request with HTTP 500 when REQUIRE_AUTH is true and the server API_KEY is empty; and
\* when REQUIRE_AUTH is true and API_KEY is not empty, admits a request if and only if
\* its X-API-Key header value, after removing an optional leading "Bearer " prefix,
\* equals API_KEY, rejecting it with HTTP 401 otherwise (wrong or missing key).
C25_AdmittedByKey ==
    Authenticated =>
        IF ~settings.REQUIRE_AUTH THEN api_key.ok
        ELSE IF settings.API_KEY = Text(<<"">>) THEN Refused(500)
        ELSE IF WithoutBearer(KeyHeader) = settings.API_KEY THEN api_key.ok
        ELSE Refused(401)

\* the part of C25 that holds: every case but a header value that starts with "Bearer "
C25_WithoutPrefix ==
    (Authenticated /\ (KeyHeader = JNull \/ ~StartsWithBearer(KeyHeader))) =>
        IF ~settings.REQUIRE_AUTH THEN api_key.ok
        ELSE IF settings.API_KEY = Text(<<"">>) THEN Refused(500)
        ELSE IF KeyHeader = settings.API_KEY THEN api_key.ok
        ELSE Refused(401)

\* a header with more text after the key was admitted
C25_TrailingTextAdmitted ==
    /\ Authenticated /\ settings.REQUIRE_AUTH
    /\ settings.API_KEY = Text(<<"secret">>)
    /\ KeyHeader = Text(<<"Bearer", "secret", "extra">>)
    /\ api_key.ok

\* a key with a space in it, sent with the prefix, was refused
C25_SpacedKeyRefused ==
    /\ Authenticated /\ settings.REQUIRE_AUTH
    /\ settings.API_KEY = Text(<<"se", "cret">>)
    /\ KeyHeader = Text(<<"Bearer", "se", "cret">>)
    /\ Refused(401)

\* the request comes from the model-generation example, whose key is the server's
ExampleWithServerKey ==
    /\ request # None /\ request.client = "example"
    /\ settings.REQUIRE_AUTH /\ Truthy(settings.API_KEY)
    /\ request.headers = << <<"Authorization", Text(<<"Bearer">> \o settings.API_KEY.v)>> >>

\* C26: with authentication required and a server API key configured, a client that
\* sends the correct key the way the model-generation example does, as the header
\* Authorization: Bearer <key>, is authenticated by get_api_key and reaches the
\* /generate-model handler.
C26_ExampleAuthenticated ==
    (ExampleWithServerKey /\ Authenticated) =>
        /\ api_key.ok
        /\ response # None => served # None

\* the example sent the server's key and was answered 401 without the handler running
C26_ExampleRefused ==
    /\ ExampleWithServerKey /\ Authenticated
    /\ Refused(401) /\ served = None
    /\ client = Return(JObj(<< <<"detail", JStr("Invalid API key")>> >>))

\* what holds instead: a server that requires a key never admits the example
C26_ExampleNeverAdmitted ==
    (Authenticated /\ request.client = "example" /\ settings.REQUIRE_AUTH) => ~api_key.ok

\* C27: SchemaForgeClient.generate_model, on every successful /generate-model response
\* of this server (success=True), returns a dictionary containing the generated model
\* code, the JSON schema, the fields, the model name and the model used, without
\* raising.
C27_SdkReturnsModel ==
    (request # None /\ request.client = "sdk" /\ client # None /\ Succeeded(response)) =>
        /\ client.ok
        /\ \A key \in {"model_code", "json_schema", "fields", "model_name", "model_used"} :
              Has(client.val, key)

\* the server answered success=True and the SDK call raised KeyError: the response has
\* no json_schema
C27_SdkKeyError ==
    /\ request # None /\ request.client = "sdk" /\ client # None
    /\ served # None /\ served.ok /\ Succeeded(response)
    /\ ~Has(response.body, "json_schema")
    /\ ~client.ok /\ client.exc = "KeyError"

\* what holds instead: the SDK call returns for no response at all
C27_SdkAlwaysRaises ==
    (request # None /\ request.client = "sdk" /\ client # None) => ~client.ok

\* C28: the struct_model_name of a request is the model name used for structuring:
\* create_dynamic_model(schema_description, struct_model_name) returns a root type named
\* struct_model_name whenever the schema declares no title (and "DynamicModel" only when
\* struct_model_name is left at its default).
C28_RootNamedByRequest ==
    (Structured /\ Compiled /\ ~Has(SchemaV, "title")) =>
        TypeV.name = request.body.struct_model_name.v

\* a request asked for the name Invoice and the root type is DynamicModel
C28_NameNotUsed ==
    /\ Structured /\ Compiled /\ ~Has(SchemaV, "title")
    /\ request.body.struct_model_name = JStr("Invoice")
    /\ TypeV.name = "DynamicModel"

\* what holds instead: the compiled type does not depend on struct_model_name
C28_NameNeverRead ==
    Structured =>
        \A name \in {JStr("DynamicModel"), JStr("Invoice"), JNull} :
            create_dynamic_model(request.body.schema_description, name) = ret[1]

RECURSIVE DefaultsResolved(_, _)
\* in the class compiled from `schema` and in the classes below it, a field listed by
\* its own object carries its fragment's default, or the required marker without one;
\* a field not listed carries its fragment's default, or None without one
DefaultsResolved(schema, type) ==
    /\ Len(type.fields) = Len(PropertiesOf(schema))
    /\ \A i \in DOMAIN PropertiesOf(schema) :
          LET name == PropertiesOf(schema)[i][1]
              frag == PropertiesOf(schema)[i][2]
              info == type.fields[i][2][2]
              base == BaseType(type.fields[i][2][1])
          IN  /\ info.default = IF Listed(name, schema) THEN Get(frag, "default", Ellipsis)
                                ELSE Get(frag, "default", JNull)
              /\ IsRecord(frag) => DefaultsResolved(frag, base)
              /\ IsRecordList(frag) => DefaultsResolved(Get(frag, "items", JNull), base.item)

\* C29: in every compiled record type a field must be supplied by the candidate exactly
\* when its name is in the containing object's required array and its fragment has no
\* default key; a listed field whose fragment declares a default (an explicit null
\* included) resolves to that default when omitted, and a field that is not listed
\* resolves to its declared default or else to null when omitted, nullable or not.
C29_RequiredUnlessDefault ==
    /\ Compiled => DefaultsResolved(SchemaV, TypeV)
    /\ Instantiated =>
          \A i \in DOMAIN PropertiesOf(SchemaV) :
              LET name == PropertiesOf(SchemaV)[i][1]
                  frag == PropertiesOf(SchemaV)[i][2]
                  missing == Err(<<name>>, "missing") \in outcome.errs
              IN  IF Has(candidate, name) THEN ~missing
                  ELSE IF Listed(name, SchemaV) /\ ~Has(frag, "default") THEN missing
                  ELSE /\ ErrorsAt(name) = {}
                       /\ outcome.errs = {} =>
                             Get(outcome.data, name, Omit) = Get(frag, "default", JNull)

\* C29 witness: a listed field that is not nullable and declares the default null was
\* left out, and the data has null for it
C29_Witness ==
    /\ Instantiated /\ outcome.errs = {}
    /\ \E i \in DOMAIN PropertiesOf(SchemaV) :
          LET name == PropertiesOf(SchemaV)[i][1]
              frag == PropertiesOf(SchemaV)[i][2]
          IN  /\ Listed(name, SchemaV)
              /\ Get(frag, "default", Omit) = JNull
              /\ ~IsNullable(frag)
              /\ ~Has(candidate, name)
              /\ Get(outcome.data, name, Omit) = JNull

\* a listed field with a default inside a nested object, left out, took the default
C29_NestedDefaultTaken ==
    /\ Instantiated /\ outcome.errs = {}
    /\ SchemaV = Order
    /\ Has(candidate, "customer")
    /\ ~Has(Get(candidate, "customer", Omit), "level")
    /\ Get(Get(outcome.data, "customer", Omit), "level", Omit) = JInt(1)

\* a field that is not listed and not nullable, left out, is null in the data
C29_UnlistedResolvesToNull ==
    /\ Instantiated /\ outcome.errs = {}
    /\ \E i \in DOMAIN PropertiesOf(SchemaV) :
          LET name == PropertiesOf(SchemaV)[i][1]
              frag == PropertiesOf(SchemaV)[i][2]
          IN  /\ ~Listed(name, SchemaV) /\ ~Has(frag, "default") /\ ~IsNullable(frag)
              /\ ~Has(candidate, name)
              /\ Get(outcome.data, name, Omit) = JNull

\* an items fragment reduced to its type key
OnlyType(items) ==
    IF Has(items, "type") THEN JObj(<< <<"type", Get(items, "type", JNull)>> >>)
    ELSE JObj(<<>>)
\* the fragment takes the array rule and its items fragment does not have type object
HasPlainItems(frag) == HasItems(frag) /\ Get(Get(frag, "items", JNull), "type", JNull) # JStr("object")
\* element j of the array given for the root field `name` was refused
ElementRefused(name, j) == \E e \in ErrorsAt(name) : Len(e.loc) >= 2 /\ e.loc[2] = j

\* C30: for an array field whose items fragment does not have type object, only
\* items.type is consulted: enum, nullable, default and nested items of the items
\* fragment have no effect on the compiled element type, so an array of enum-constrained
\* strings accepts any string element and an array of arrays accepts inner arrays with
\* elements of any kind; an items fragment with no type yields elements of kind any.
C30_OnlyItemsTypeConsulted ==
    /\ Returned =>
          \A i \in DOMAIN PropertiesOf(SchemaV) :
              LET name == PropertiesOf(SchemaV)[i][1]
                  frag == PropertiesOf(SchemaV)[i][2]
                  items == Get(frag, "items", JNull)
                  bare == process_field(name, JObj(Put(frag.v, "items", OnlyType(items))),
                                        Get(SchemaV, "required", JArr(<<>>)))
              IN  (HasPlainItems(frag) /\ OthersCompile(i)) =>
                      /\ IF bare.ok THEN ret[1].ok /\ FieldOf(TypeV, name) = bare.val
                         ELSE ret[1] = bare
                      /\ ~Has(items, "type") =>
                            ret[1].ok /\ BaseType(FieldOf(TypeV, name)[1]) = TList(TAny)
                      /\ Get(items, "type", JNull) = JStr("string") =>
                            ret[1].ok /\ BaseType(FieldOf(TypeV, name)[1]) = TList(TPrim("str"))
                      /\ Get(items, "type", JNull) = JStr("array") =>
                            ret[1].ok /\ BaseType(FieldOf(TypeV, name)[1]) = TList(TPrim("list"))
    /\ Instantiated =>
          \A i \in DOMAIN PropertiesOf(SchemaV) :
              LET name == PropertiesOf(SchemaV)[i][1]
                  frag == PropertiesOf(SchemaV)[i][2]
                  items == Get(frag, "items", JNull)
                  v == Get(candidate, name, Omit)
              IN  (HasPlainItems(frag) /\ v.k = "arr") =>
                      \A j \in DOMAIN v.v :
                          /\ ~Has(items, "type") => ~ElementRefused(name, j)
                          /\ Get(items, "type", JNull) = JStr("string") =>
                                (ElementRefused(name, j) <=> v.v[j].k # "str")
                          /\ Get(items, "type", JNull) = JStr("array") =>
                                (ElementRefused(name, j) <=> v.v[j].k # "arr")

\* C30 witness: items of enum-constrained strings took "fish", which the enum does not
\* have, and refused the inner array and the null
C30_Witness ==
    /\ Instantiated
    /\ \E i \in DOMAIN PropertiesOf(SchemaV) :
          LET name == PropertiesOf(SchemaV)[i][1]
              frag == PropertiesOf(SchemaV)[i][2]
              items == Get(frag, "items", JNull)
          IN  /\ HasPlainItems(frag)
              /\ Get(items, "type", JNull) = JStr("string")
              /\ Get(items, "enum", JNull) = JArr(<<JStr("dog"), JStr("cat")>>)
              /\ Get(candidate, name, Omit) = JArr(<<JStr("fish"), JArr(<<JInt(7)>>), JNull>>)
              /\ ~ElementRefused(name, 1)
              /\ ElementRefused(name, 2) /\ ElementRefused(name, 3)

\* items that are arrays of strings took an inner array holding a number
C30_InnerArrayOfAnyKind ==
    /\ Instantiated
    /\ \E i \in DOMAIN PropertiesOf(SchemaV) :
          LET name == PropertiesOf(SchemaV)[i][1]
              frag == PropertiesOf(SchemaV)[i][2]
              items == Get(frag, "items", JNull)
          IN  /\ HasPlainItems(frag)
              /\ Get(items, "type", JNull) = JStr("array")
              /\ Get(Get(items, "items", JObj(<<>>)), "type", JNull) = JStr("string")
              /\ Get(candidate, name, Omit) = JArr(<<JStr("fish"), JArr(<<JInt(7)>>), JNull>>)
              /\ ~ElementRefused(name, 2)

\* items without a type, an enum alone, took every element; nullable integer items
\* refused the null
C30_UntypedItemsTakeAll ==
    /\ Instantiated /\ outcome.errs = {}
    /\ \E i \in DOMAIN PropertiesOf(SchemaV) :
          LET name == PropertiesOf(SchemaV)[i][1]
              items == Get(PropertiesOf(SchemaV)[i][2], "items", JNull)
          IN  /\ HasPlainItems(PropertiesOf(SchemaV)[i][2])
              /\ ~Has(items, "type") /\ Has(items, "enum")
              /\ Get(candidate, name, Omit) = JArr(<<JStr("fish"), JArr(<<JInt(7)>>), JNull>>)
C30_NullableItemsRefuseNull ==
    /\ Instantiated
    /\ \E i \in DOMAIN PropertiesOf(SchemaV) :
          LET name == PropertiesOf(SchemaV)[i][1]
              items == Get(PropertiesOf(SchemaV)[i][2], "items", JNull)
          IN  /\ HasPlainItems(PropertiesOf(SchemaV)[i][2])
              /\ Get(items, "nullable", JNull) = JBool(TRUE)
              /\ Get(candidate, name, Omit) = JArr(<<JStr("fish"), JArr(<<JInt(7)>>), JNull>>)
              /\ ElementRefused(name, 3)

====
